---- MODULE Spec2Model ----
(***************************************************************************)
(* Verification model of terraform-provider-sonarr: the dynamic field      *)
(* marshaler of the indexer resource (writeIndexer / readIndexerFields)    *)
(* and the CRUD lifecycle of IndexerResource against the remote server.    *)
(***************************************************************************)
EXTENDS Integers, Sequences, FiniteSets, TLC

(***************************************************************************)
(* Bounds of the model.                                                    *)
(***************************************************************************)
\* longest FieldEntry list handed to the marshaler
MaxFields == 2
\* most field-backed attributes one plan configures
MaxPlanFields == 1
\* most resources the server creates (caps the id counter)
MaxCreates == 2

\* Configure calls on one resource or data source instance
MaxConfigures == 2

\* most elements of the list a data source gets from the server
MaxListed == 3

(***************************************************************************)
(* Partition tables, indexer_resource.go:26-32.                            *)
(***************************************************************************)
\* variant: a name listed twice in the table
indexerIntSliceFields_Duplicated == <<"categories", "animeCategories", "categories">>

indexerIntSliceFields == <<"categories", "animeCategories">>

indexerBoolFields == <<"allowZeroSize", "animeStandardFormatSearch", "rankedOnly">>

indexerIntFields == <<"delay", "minimumSeeders", "seasonPackSeedTime", "seedTime">>

indexerStringFields ==
    <<"additionalParameters", "apiKey", "apiPath", "baseUrl", "captchaToken",
      "cookie", "passkey", "username">>

\* variant: a name of the integer table listed in the float table as well
indexerFloatFields_Overlapping == <<"seedRatio", "seedTime">>

indexerFloatFields == <<"seedRatio">>

\* slices.Contains as used by writeIndexer
Contains(s, e) == \E i \in 1..Len(s) : s[i] = e

Range(s) == {s[i] : i \in 1..Len(s)}

\* every field-backed attribute of the Indexer struct, by wire name
IndexerFieldNames ==
    Range(indexerBoolFields) \cup Range(indexerIntFields) \cup Range(indexerFloatFields)
        \cup Range(indexerStringFields) \cup Range(indexerIntSliceFields)

(***************************************************************************)
(* Values.  One record shape carries every Go value so that any two values *)
(* can be compared: kind tells which component is meaningful.              *)
(*   decoded JSON (interface{}):  "nil" "bool" "number" "string" "array"   *)
(*   typed Go values:             "bool" "int64" "float64" "string" "set"  *)
(* A number is n + 1/2 when frac holds, n otherwise.                       *)
(***************************************************************************)
Val(k, b, n, frac, s, l) == [kind |-> k, b |-> b, n |-> n, frac |-> frac, s |-> s, l |-> l]

JNil == Val("nil", FALSE, 0, FALSE, "", <<>>)
JBool(b) == Val("bool", b, 0, FALSE, "", <<>>)
JNumber(n, frac) == Val("number", FALSE, n, frac, "", <<>>)
JString(s) == Val("string", FALSE, 0, FALSE, s, <<>>)
JArray(l) == Val("array", FALSE, 0, FALSE, "", l)

GoBool(b) == Val("bool", b, 0, FALSE, "", <<>>)
GoInt64(n) == Val("int64", FALSE, n, FALSE, "", <<>>)
GoFloat64(n, frac) == Val("float64", FALSE, n, frac, "", <<>>)
GoString(s) == Val("string", FALSE, 0, FALSE, s, <<>>)
GoSet(l) == Val("set", FALSE, 0, FALSE, "", l)

\* encoding/json of a typed Go value, as the API client sends it and the
\* server hands it back decoded into interface{}
ToJSON(v) ==
    CASE v.kind = "bool" -> JBool(v.b)
      [] v.kind = "int64" -> JNumber(v.n, FALSE)
      [] v.kind = "float64" -> JNumber(v.n, v.frac)
      [] v.kind = "string" -> JString(v.s)
      [] v.kind = "set" -> JArray(v.l)
      [] OTHER -> JNil

(***************************************************************************)
(* types.Bool / types.Int64 / types.Float64 / types.String / types.Set of  *)
(* the plugin framework: a struct {Unknown, Null, Value}.  The composite   *)
(* literal types.Bool{Value: x} of writeIndexer leaves Unknown and Null at *)
(* false, which is how the code builds a present value; the Go zero value  *)
(* of such a struct is therefore a present zero value.                     *)
(***************************************************************************)
Attr(unknown, null, v) == [Unknown |-> unknown, Null |-> null, Value |-> v]

\* types.X{Value: v}
Known(v) == Attr(FALSE, FALSE, v)

\* IsNull() || IsUnknown()
IsUnset(a) == a.Null \/ a.Unknown

\* Go zero value of the attribute type a field name is declared with
ZeroValue(name) ==
    IF Contains(indexerBoolFields, name) THEN GoBool(FALSE)
    ELSE IF Contains(indexerIntFields, name) THEN GoInt64(0)
    ELSE IF Contains(indexerFloatFields, name) THEN GoFloat64(0, FALSE)
    ELSE IF Contains(indexerStringFields, name) THEN GoString("")
    ELSE GoSet(<<>>)

\* starr.FieldOutput / starr.FieldInput
Field(name, v) == [Name |-> name, Value |-> v]

(***************************************************************************)
(* helpers.Write*Field: set the attribute bound to f.Name to a present     *)
(* value coerced from the wire value; a value of another type is a fatal   *)
(* contract violation.  The result pairs the record with a panic flag.     *)
(***************************************************************************)
Ok(output) == [panicked |-> FALSE, output |-> output]

Panic(output) == [panicked |-> TRUE, output |-> output]

SetField(output, name, v) == [output EXCEPT !.Attrs[name] = Known(v)]

WriteStringField(f, output) ==
    IF f.Value.kind = "string"
    THEN Ok(SetField(output, f.Name, GoString(f.Value.s)))
    ELSE Panic(output)

WriteBoolField(f, output) ==
    IF f.Value.kind = "bool"
    THEN Ok(SetField(output, f.Name, GoBool(f.Value.b)))
    ELSE Panic(output)

\* int64(float64): the fraction is truncated
WriteIntField(f, output) ==
    IF f.Value.kind = "number"
    THEN Ok(SetField(output, f.Name, GoInt64(f.Value.n)))
    ELSE Panic(output)

WriteFloatField(f, output) ==
    IF f.Value.kind = "number"
    THEN Ok(SetField(output, f.Name, GoFloat64(f.Value.n, f.Value.frac)))
    ELSE Panic(output)

WriteIntSliceField(f, output) ==
    IF f.Value.kind = "array"
    THEN Ok(SetField(output, f.Name, GoSet(f.Value.l)))
    ELSE Panic(output)

(***************************************************************************)
(* writeIndexer, indexer_resource.go:402-455.                              *)
(***************************************************************************)
\* the struct literal of lines 403-417 and the tags conversion of line 418:
\* the three sets are given as present sets without elements, every other
\* field-backed attribute is left at its Go zero value
writeIndexerLiteral(indexer) ==
    [EnableAutomaticSearch |-> Known(GoBool(indexer.EnableAutomaticSearch)),
     EnableInteractiveSearch |-> Known(GoBool(indexer.EnableInteractiveSearch)),
     EnableRss |-> Known(GoBool(indexer.EnableRss)),
     Priority |-> Known(GoInt64(indexer.Priority)),
     DownloadClientID |-> Known(GoInt64(indexer.DownloadClientID)),
     ID |-> Known(GoInt64(indexer.ID)),
     ConfigContract |-> Known(GoString(indexer.ConfigContract)),
     Implementation |-> Known(GoString(indexer.Implementation)),
     Name |-> Known(GoString(indexer.Name)),
     Protocol |-> Known(GoString(indexer.Protocol)),
     Tags |-> Known(GoSet(indexer.Tags)),
     Attrs |-> [name \in IndexerFieldNames |-> Known(ZeroValue(name))]]

\* variant: the last branch taken without its slices.Contains guard
writeIndexerField_Unguarded(f, output) ==
    IF f.Value.kind = "nil" THEN Ok(output)
    ELSE IF Contains(indexerStringFields, f.Name) THEN WriteStringField(f, output)
    ELSE IF Contains(indexerBoolFields, f.Name) THEN WriteBoolField(f, output)
    ELSE IF Contains(indexerIntFields, f.Name) THEN WriteIntField(f, output)
    ELSE IF Contains(indexerFloatFields, f.Name) THEN WriteFloatField(f, output)
    ELSE WriteIntSliceField(f, output)

\* variant: a helper is called only with a value of its type (checked type
\* assertions), another value leaves the attribute as it is
writeIndexerField_SkipsMismatch(f, output) ==
    IF f.Value.kind = "nil" THEN Ok(output)
    ELSE IF Contains(indexerStringFields, f.Name)
    THEN IF f.Value.kind = "string" THEN WriteStringField(f, output) ELSE Ok(output)
    ELSE IF Contains(indexerBoolFields, f.Name)
    THEN IF f.Value.kind = "bool" THEN WriteBoolField(f, output) ELSE Ok(output)
    ELSE IF Contains(indexerIntFields, f.Name)
    THEN IF f.Value.kind = "number" THEN WriteIntField(f, output) ELSE Ok(output)
    ELSE IF Contains(indexerFloatFields, f.Name)
    THEN IF f.Value.kind = "number" THEN WriteFloatField(f, output) ELSE Ok(output)
    ELSE IF Contains(indexerIntSliceFields, f.Name)
    THEN IF f.Value.kind = "array" THEN WriteIntSliceField(f, output) ELSE Ok(output)
    ELSE Ok(output)

\* variant: the f.Value != nil test of line 421 is missing
writeIndexerField_NoNilTest(f, output) ==
    IF Contains(indexerStringFields, f.Name) THEN WriteStringField(f, output)
    ELSE IF Contains(indexerBoolFields, f.Name) THEN WriteBoolField(f, output)
    ELSE IF Contains(indexerIntFields, f.Name) THEN WriteIntField(f, output)
    ELSE IF Contains(indexerFloatFields, f.Name) THEN WriteFloatField(f, output)
    ELSE IF Contains(indexerIntSliceFields, f.Name) THEN WriteIntSliceField(f, output)
    ELSE Ok(output)

\* one iteration of the loop of lines 420-452
writeIndexerField(f, output) ==
    IF f.Value.kind = "nil" THEN Ok(output)
    ELSE IF Contains(indexerStringFields, f.Name) THEN WriteStringField(f, output)
    ELSE IF Contains(indexerBoolFields, f.Name) THEN WriteBoolField(f, output)
    ELSE IF Contains(indexerIntFields, f.Name) THEN WriteIntField(f, output)
    ELSE IF Contains(indexerFloatFields, f.Name) THEN WriteFloatField(f, output)
    ELSE IF Contains(indexerIntSliceFields, f.Name) THEN WriteIntSliceField(f, output)
    ELSE Ok(output)

RECURSIVE writeIndexerLoop(_, _, _)
writeIndexerLoop(Fields, i, acc) ==
    IF i > Len(Fields) \/ acc.panicked
    THEN acc
    ELSE writeIndexerLoop(Fields, i + 1, writeIndexerField(Fields[i], acc.output))

writeIndexer(indexer) == writeIndexerLoop(indexer.Fields, 1, Ok(writeIndexerLiteral(indexer)))

(***************************************************************************)
(* helpers.Read*Field: nil (the empty sequence here) when the attribute is *)
(* unset, otherwise the one entry carrying the attribute's value.          *)
(***************************************************************************)
ReadField(name, indexer) ==
    IF IsUnset(indexer.Attrs[name])
    THEN <<>>
    ELSE <<Field(name, indexer.Attrs[name].Value)>>

ReadBoolField(name, indexer) == ReadField(name, indexer)

ReadIntField(name, indexer) == ReadField(name, indexer)

ReadFloatField(name, indexer) == ReadField(name, indexer)

ReadStringField(name, indexer) == ReadField(name, indexer)

ReadIntSliceField(name, indexer) == ReadField(name, indexer)

(***************************************************************************)
(* readIndexerFields, indexer_resource.go:478-512.                         *)
(***************************************************************************)
RECURSIVE Flatten(_)
Flatten(seqs) == IF seqs = <<>> THEN <<>> ELSE Head(seqs) \o Flatten(Tail(seqs))

\* variant: the entry is appended without the field != nil test
readIndexerFields_NoNilTest(indexer) ==
    LET names == indexerBoolFields \o indexerIntFields \o indexerFloatFields
                     \o indexerStringFields \o indexerIntSliceFields
    IN [i \in 1..Len(names) |-> Field(names[i], indexer.Attrs[names[i]].Value)]

\* variant: the loop over the integer-list fields is missing
readIndexerFields_NoIntSlice(indexer) ==
    Flatten([i \in 1..Len(indexerBoolFields) |-> ReadBoolField(indexerBoolFields[i], indexer)])
        \o Flatten([i \in 1..Len(indexerIntFields) |-> ReadIntField(indexerIntFields[i], indexer)])
        \o Flatten([i \in 1..Len(indexerFloatFields) |->
                        ReadFloatField(indexerFloatFields[i], indexer)])
        \o Flatten([i \in 1..Len(indexerStringFields) |->
                        ReadStringField(indexerStringFields[i], indexer)])

\* variant: the loop over the string fields comes first
readIndexerFields_StringsFirst(indexer) ==
    Flatten([i \in 1..Len(indexerStringFields) |->
                 ReadStringField(indexerStringFields[i], indexer)])
        \o Flatten([i \in 1..Len(indexerBoolFields) |->
                        ReadBoolField(indexerBoolFields[i], indexer)])
        \o Flatten([i \in 1..Len(indexerIntFields) |-> ReadIntField(indexerIntFields[i], indexer)])
        \o Flatten([i \in 1..Len(indexerFloatFields) |->
                        ReadFloatField(indexerFloatFields[i], indexer)])
        \o Flatten([i \in 1..Len(indexerIntSliceFields) |->
                        ReadIntSliceField(indexerIntSliceFields[i], indexer)])

\* each loop appends, in table order, the entries that are not nil
readIndexerFields(indexer) ==
    Flatten([i \in 1..Len(indexerBoolFields) |-> ReadBoolField(indexerBoolFields[i], indexer)])
        \o Flatten([i \in 1..Len(indexerIntFields) |-> ReadIntField(indexerIntFields[i], indexer)])
        \o Flatten([i \in 1..Len(indexerFloatFields) |->
                        ReadFloatField(indexerFloatFields[i], indexer)])
        \o Flatten([i \in 1..Len(indexerStringFields) |->
                        ReadStringField(indexerStringFields[i], indexer)])
        \o Flatten([i \in 1..Len(indexerIntSliceFields) |->
                        ReadIntSliceField(indexerIntSliceFields[i], indexer)])

\* variant: the Fields member is left out of the request
readIndexer_NoFields(indexer) ==
    [EnableAutomaticSearch |-> indexer.EnableAutomaticSearch.Value.b,
     EnableInteractiveSearch |-> indexer.EnableInteractiveSearch.Value.b,
     EnableRss |-> indexer.EnableRss.Value.b,
     Priority |-> indexer.Priority.Value.n,
     DownloadClientID |-> indexer.DownloadClientID.Value.n,
     ID |-> indexer.ID.Value.n,
     ConfigContract |-> indexer.ConfigContract.Value.s,
     Implementation |-> indexer.Implementation.Value.s,
     Name |-> indexer.Name.Value.s,
     Protocol |-> indexer.Protocol.Value.s,
     Tags |-> indexer.Tags.Value.l,
     Fields |-> <<>>]

\* readIndexer, indexer_resource.go:457-476: *sonarr.IndexerInput of a record
readIndexer(indexer) ==
    [EnableAutomaticSearch |-> indexer.EnableAutomaticSearch.Value.b,
     EnableInteractiveSearch |-> indexer.EnableInteractiveSearch.Value.b,
     EnableRss |-> indexer.EnableRss.Value.b,
     Priority |-> indexer.Priority.Value.n,
     DownloadClientID |-> indexer.DownloadClientID.Value.n,
     ID |-> indexer.ID.Value.n,
     ConfigContract |-> indexer.ConfigContract.Value.s,
     Implementation |-> indexer.Implementation.Value.s,
     Name |-> indexer.Name.Value.s,
     Protocol |-> indexer.Protocol.Value.s,
     Tags |-> indexer.Tags.Value.l,
     Fields |-> readIndexerFields(indexer)]

\* the request body as marshalled to JSON: every field value encoded
FieldsToJSON(fields) == [i \in 1..Len(fields) |-> Field(fields[i].Name, ToJSON(fields[i].Value))]

(***************************************************************************)
(* Inputs: server records and plans.                                       *)
(***************************************************************************)
\* *sonarr.IndexerOutput as decoded from a server response
IndexerOutput(id, name, tags, fields) ==
    [EnableAutomaticSearch |-> FALSE, EnableInteractiveSearch |-> FALSE, EnableRss |-> FALSE,
     Priority |-> 25, DownloadClientID |-> 0, ID |-> id,
     ConfigContract |-> "FileListSettings", Implementation |-> "FileList",
     Name |-> name, Protocol |-> "torrent", Tags |-> tags, Fields |-> fields]

\* values of the declared type a server sends for a field name
WellTyped(name) ==
    IF Contains(indexerBoolFields, name) THEN {JBool(FALSE), JBool(TRUE)}
    ELSE IF Contains(indexerIntFields, name) THEN {JNumber(0, FALSE), JNumber(1, FALSE)}
    ELSE IF Contains(indexerFloatFields, name) THEN {JNumber(0, FALSE), JNumber(1, TRUE)}
    ELSE IF Contains(indexerStringFields, name) THEN {JString(""), JString("user")}
    ELSE {JArray(<<>>), JArray(<<21, 23>>)}

\* values of another type than the declared one
IllTyped(name) == IF Contains(indexerStringFields, name) THEN {JNumber(1, FALSE)} ELSE {JString("x")}

\* one name of each partition also receives absent and ill-typed values
ProbeNames == {"rankedOnly", "minimumSeeders", "seedRatio", "username", "categories"}

FieldEntries ==
    UNION {{Field(name, v) : v \in WellTyped(name)} : name \in IndexerFieldNames}
        \cup UNION {{Field(name, v) : v \in IllTyped(name) \cup {JNil}} : name \in ProbeNames}
        \cup {Field("minimumSeeders", JNumber(1, TRUE))}
        \cup {Field("extraServerField", v) : v \in {JNumber(7, FALSE), JNil}}

\* field lists of at most MaxFields entries, names unique within a list
FieldLists ==
    UNION {{l \in [1..k -> FieldEntries] : \A i, j \in 1..k : l[i].Name = l[j].Name => i = j}
             : k \in 0..MaxFields}

\* typed values a configuration gives a field-backed attribute
PlanValues(name) ==
    IF Contains(indexerBoolFields, name) THEN {GoBool(FALSE), GoBool(TRUE)}
    ELSE IF Contains(indexerIntFields, name) THEN {GoInt64(0), GoInt64(1)}
    ELSE IF Contains(indexerFloatFields, name) THEN {GoFloat64(0, FALSE), GoFloat64(1, TRUE)}
    ELSE IF Contains(indexerStringFields, name) THEN {GoString("user"), GoString("Username")}
    ELSE {GoSet(<<>>), GoSet(<<21, 23>>)}

\* attributes the configurations of the model set
PlanNames == {"rankedOnly", "minimumSeeders", "seedRatio", "username", "categories"}

PlanConfigs ==
    UNION {{cfg \in [S -> UNION {PlanValues(a) : a \in S}] : \A a \in S : cfg[a] \in PlanValues(a)}
             : S \in {T \in SUBSET PlanNames : Cardinality(T) <= MaxPlanFields}}

\* the Indexer decoded from a plan (req.Plan.Get): configured attributes are
\* present, the others unknown (Optional+Computed) or null; id is Computed
PlanIndexer(id, name, cfg, unsetNull) ==
    [EnableAutomaticSearch |-> Known(GoBool(FALSE)),
     EnableInteractiveSearch |-> Known(GoBool(FALSE)),
     EnableRss |-> Known(GoBool(FALSE)),
     Priority |-> Known(GoInt64(25)),
     DownloadClientID |-> Known(GoInt64(0)),
     ID |-> id,
     ConfigContract |-> Known(GoString("FileListSettings")),
     Implementation |-> Known(GoString("FileList")),
     Name |-> Known(GoString(name)),
     Protocol |-> Known(GoString("torrent")),
     Tags |-> Known(GoSet(<<>>)),
     Attrs |-> [a \in IndexerFieldNames |->
                  IF a \in DOMAIN cfg THEN Known(cfg[a])
                  ELSE Attr(~unsetNull, unsetNull, ZeroValue(a))]]

\* types.Int64{Unknown: true}
UnknownID == Attr(TRUE, FALSE, GoInt64(0))

PlanNamesOfResource == {"filelistResourceTest"}

Plans ==
    {PlanIndexer(UnknownID, name, cfg, unsetNull)
        : name \in PlanNamesOfResource, cfg \in PlanConfigs, unsetNull \in BOOLEAN}

(***************************************************************************)
(* State.                                                                  *)
(***************************************************************************)
VARIABLES
    pc,        \* marshaling run: position
    input,     \* marshaling run: the *sonarr.IndexerOutput handed to writeIndexer
    record,    \* marshaling run: the Indexer written or decoded
    output,    \* marshaling run: the field list readIndexerFields returned
    remote,    \* the indexer the server holds, if any
    nextID,    \* the id the server gives the next indexer it creates
    state,     \* the resource state Terraform tracks, if any
    diags,     \* resp.Diagnostics of the last lifecycle operation
    last,      \* the last lifecycle operation: what was asked, whether the API was called
    createdID, \* the id the server returned at the Create of the tracked resource
    calls,     \* the requests the server received during the last lifecycle operation
    imported,  \* the last ImportState: its identifier, the state it replaced
    config,    \* provider: the SonarrProviderModel decoded from the configuration
    env,       \* provider: the environment variables SONARR_URL and SONARR_API_KEY
    configure, \* provider: the ConfigureResponse, once Configure has run
    consumers, \* provider: each resource's and data source's client and last Configure
    procs,     \* concurrent marshaling: each invocation's position and locals
    tables,    \* concurrent marshaling: the package-level partition tables
    lookup,    \* data source: the Read of a single-item data source and its response
    conversion \* conversion: a specific model, the request built from it, its round trip

marshalVars == <<pc, input, record, output>>

lifecycleVars == <<remote, nextID, state, diags, last, createdID, calls, imported>>

providerVars == <<config, env, configure, consumers>>

concurrentVars == <<procs, tables>>

vars ==
    <<pc, input, record, output, remote, nextID, state, diags, last, createdID, calls,
      imported, config, env, configure, consumers, procs, tables, lookup,
      conversion>>

\* the Go zero value of Indexer
ZeroIndexer == writeIndexerLiteral(IndexerOutput(0, "", <<>>, <<>>))

\* no resource on the server; no resource in state
NoRemote == [exists |-> FALSE, indexer |-> IndexerOutput(0, "", <<>>, <<>>)]

NoState == [exists |-> FALSE, indexer |-> ZeroIndexer]

NoOperation ==
    [op |-> "none", called |-> FALSE, err |-> FALSE, plan |-> ZeroIndexer, requestID |-> 0]

\* no ImportState has run: no identifier, no state replaced
NoImport == [active |-> FALSE, read |-> FALSE, text |-> <<>>, before |-> NoState]

\* types.String{Null: true}, what an attribute the configuration leaves out decodes to
NullString == Attr(FALSE, TRUE, GoString(""))

\* the provider before Configure: nothing configured, nothing in the environment
NoConfig == [URL |-> NullString, APIKey |-> NullString, diags |-> <<>>]

\* no client: the nil of resp.DataSourceData and resp.ResourceData
NoClient == [set |-> FALSE, url |-> "", key |-> ""]

\* provider.ConfigureResponse before Configure ran
NoConfigure ==
    [done |-> FALSE, Diagnostics |-> <<>>, DataSourceData |-> NoClient, ResourceData |-> NoClient]

\* the package-level tables of indexer_resource.go:26-32 as the variables they are
Tables ==
    [indexerIntSliceFields |-> indexerIntSliceFields,
     indexerBoolFields |-> indexerBoolFields,
     indexerIntFields |-> indexerIntFields,
     indexerStringFields |-> indexerStringFields,
     indexerFloatFields |-> indexerFloatFields]

InitMarshalIdle ==
    /\ pc = "idle"
    /\ input = NoRemote.indexer
    /\ record = ZeroIndexer
    /\ output = <<>>

\* what the provider hands to Configure of a resource or data source
ProviderData(type, value) == [type |-> type, value |-> value]

\* a resource or data source as its constructor returns it: no client
NotConfigured ==
    [client |-> NoClient, Diagnostics |-> <<>>, ProviderData |-> ProviderData("nil", NoClient),
     calls |-> 0]

\* the resources and data sources that have their own Configure, each with
\* the constant it reports a provider data of another type with
ConfigureSummaries ==
    [IndexerResource |-> "UnexpectedResourceConfigureType",
     DownloadClientPneumaticResource |-> "UnexpectedResourceConfigureType",
     IndexerDataSource |-> "UnexpectedDataSourceConfigureType"]

\* no conversion under way
NoConversion ==
    [of |-> "none", n |-> <<>>, requested |-> FALSE, request |-> <<>>, converted |-> FALSE,
     back |-> <<>>]

\* no data source is being read
NoLookup ==
    [of |-> "none", name |-> "", list |-> <<>>, done |-> FALSE, decode |-> <<>>, fail |-> FALSE,
     Diagnostics |-> <<>>, State |-> [set |-> FALSE, value |-> <<>>]]

InitProviderIdle ==
    /\ config = NoConfig
    /\ env = [SONARR_URL |-> "", SONARR_API_KEY |-> ""]
    /\ configure = NoConfigure
    /\ consumers = [c \in DOMAIN ConfigureSummaries |-> NotConfigured]

InitConcurrentIdle ==
    /\ procs = <<>>
    /\ tables = Tables

InitLifecycle ==
    /\ remote = NoRemote
    /\ nextID = 1
    /\ state = NoState
    /\ diags = <<>>
    /\ last = NoOperation
    /\ createdID = 0
    /\ calls = 0
    /\ imported = NoImport

(***************************************************************************)
(* Marshaling runs: one translation of a server response, or of a plan,    *)
(* and the translation back.                                               *)
(***************************************************************************)
InitMarshal ==
    /\ conversion = NoConversion
    /\ lookup = NoLookup
    /\ pc = "start"
    /\ input \in {IndexerOutput(1, "filelistResourceTest", <<>>, l) : l \in FieldLists}
    /\ record = ZeroIndexer
    /\ output = <<>>
    /\ InitLifecycle
    /\ InitProviderIdle
    /\ InitConcurrentIdle

\* result := writeIndexer(ctx, response)
WriteIndexerCall ==
    /\ pc = "start"
    /\ LET result == writeIndexer(input)
       IN /\ record' = result.output
          /\ pc' = IF result.panicked THEN "panicked" ELSE "written"
    /\ UNCHANGED <<input, output>>
    /\ UNCHANGED <<lifecycleVars, providerVars, concurrentVars, lookup, conversion>>

\* req.Plan.Get(ctx, &plan)
PlanGet ==
    /\ pc = "start"
    /\ input.Fields = <<>>
    /\ \E plan \in Plans : record' = plan
    /\ pc' = "decoded"
    /\ UNCHANGED <<input, output>>
    /\ UNCHANGED <<lifecycleVars, providerVars, concurrentVars, lookup, conversion>>

\* readIndexerFields(ctx, indexer), on a written or on a decoded record
ReadIndexerFieldsCall ==
    /\ pc \in {"written", "decoded"}
    /\ output' = readIndexerFields(record)
    /\ pc' = IF pc = "written" THEN "roundtrip" ELSE "request"
    /\ UNCHANGED <<input, record>>
    /\ UNCHANGED <<lifecycleVars, providerVars, concurrentVars, lookup, conversion>>

SpecMarshal == InitMarshal /\ [][WriteIndexerCall \/ PlanGet \/ ReadIndexerFieldsCall]_vars

(***************************************************************************)
(* Properties of the marshaler.                                            *)
(***************************************************************************)
\* the value is of the type the name is declared with, within its range
HasDeclaredType(name, v) ==
    IF Contains(indexerBoolFields, name) THEN v.kind = "bool"
    ELSE IF Contains(indexerIntFields, name) THEN v.kind = "number" /\ ~v.frac
    ELSE IF Contains(indexerFloatFields, name) THEN v.kind = "number"
    ELSE IF Contains(indexerStringFields, name) THEN v.kind = "string"
    ELSE IF Contains(indexerIntSliceFields, name) THEN v.kind = "array"
    ELSE FALSE

AllDeclared(fields) ==
    \A i \in 1..Len(fields) :
        fields[i].Name \in IndexerFieldNames /\ HasDeclaredType(fields[i].Name, fields[i].Value)

HasEntryNamed(fields, name) == \E i \in 1..Len(fields) : fields[i].Name = name

\* C1: round-trip law: for a list of declared names with values of the
\* declared type, readIndexerFields(writeIndexer(L)) has exactly the
\* (name, value) entries of L: nothing missing, nothing changed, nothing added.
C1_RoundTrip ==
    (pc = "roundtrip" /\ AllDeclared(input.Fields))
        => Range(FieldsToJSON(output)) = Range(input.Fields)

\* C2: absent stays unset: after writeIndexer, every declared name without
\* an entry in the server's field list has its attribute unset (null or unknown).
C2_AbsentStaysUnset ==
    pc = "written"
        => \A name \in IndexerFieldNames :
               ~HasEntryNamed(input.Fields, name) => IsUnset(record.Attrs[name])

\* C3: omission law: the list readIndexerFields returns has no entry named
\* after an attribute that is unset in the record.
C3_Omission ==
    pc \in {"roundtrip", "request"}
        => \A name \in IndexerFieldNames :
               IsUnset(record.Attrs[name]) => ~HasEntryNamed(output, name)

C3_Witness ==
    /\ pc = "request"
    /\ \E name \in IndexerFieldNames : IsUnset(record.Attrs[name])
    /\ \E name \in IndexerFieldNames : ~IsUnset(record.Attrs[name]) /\ HasEntryNamed(output, name)

\* C4: empty-list distinctness: writeIndexer of an entry {a, []} for a list
\* field a leaves a present and empty, not unset; readIndexerFields of a
\* record whose a is present and empty emits the entry {a, []}.
C4_EmptyList ==
    \A name \in Range(indexerIntSliceFields) :
        /\ (pc = "written" /\ \E i \in 1..Len(input.Fields) :
                                  input.Fields[i] = Field(name, JArray(<<>>)))
               => (record.Attrs[name] = Known(GoSet(<<>>)) /\ ~IsUnset(record.Attrs[name]))
        /\ (pc \in {"roundtrip", "request"} /\ record.Attrs[name] = Known(GoSet(<<>>)))
               => \E i \in 1..Len(output) : output[i] = Field(name, GoSet(<<>>))

C4_Witness ==
    /\ pc = "roundtrip"
    /\ \E i \in 1..Len(input.Fields) : input.Fields[i] = Field("categories", JArray(<<>>))
    /\ \E i \in 1..Len(output) : output[i] = Field("categories", GoSet(<<>>))

\* the list without the entries whose name no partition declares
WithoutUnknown(fields) == SelectSeq(fields, LAMBDA f : f.Name \in IndexerFieldNames)

\* C5: forward compatibility: an entry whose name is in no partition is no
\* error and has no effect: writeIndexer ends as it ends on the list without
\* that entry, with the same record.
C5_ForwardCompatible ==
    (pc \in {"written", "panicked"} /\ WithoutUnknown(input.Fields) # input.Fields)
        => LET without == writeIndexer([input EXCEPT !.Fields = WithoutUnknown(input.Fields)])
           IN /\ without.panicked = (pc = "panicked")
              /\ without.output = record

C5_Witness ==
    /\ pc = "written"
    /\ \E i \in 1..Len(input.Fields) :
           input.Fields[i].Name \notin IndexerFieldNames /\ input.Fields[i].Value.kind # "nil"
    /\ \E i \in 1..Len(input.Fields) :
           input.Fields[i].Name \in IndexerFieldNames /\ input.Fields[i].Value.kind # "nil"

\* C6: the list readIndexerFields returns never holds two entries of one
\* name, nor an entry whose name is outside the declared partitions.
C6_UniqueDeclaredNames ==
    pc \in {"roundtrip", "request"}
        => /\ \A i, j \in 1..Len(output) : output[i].Name = output[j].Name => i = j
           /\ \A i \in 1..Len(output) : output[i].Name \in IndexerFieldNames

C6_Witness ==
    /\ pc = "request"
    /\ Len(output) >= 1
    /\ \E i \in 1..Len(output) : output[i].Name = "categories"

\* the entry names a declared field and carries a value of another JSON type
\* than the one its partition declares
Mismatched(f) ==
    /\ f.Name \in IndexerFieldNames
    /\ f.Value.kind # "nil"
    /\ ~HasDeclaredType(f.Name, [f.Value EXCEPT !.frac = FALSE])

\* C16: a value whose type does not match the partition its name is declared
\* in makes writeIndexer panic: no run over a list with such an entry ever
\* completes, so none completes with the attribute defaulted or left at zero.
C16_MismatchPanics ==
    (\E i \in 1..Len(input.Fields) : Mismatched(input.Fields[i]))
        => pc \in {"start", "panicked"}

C16_Witness ==
    /\ pc = "panicked"
    /\ Len(input.Fields) = 2
    /\ ~Mismatched(input.Fields[1])
    /\ input.Fields[1].Value.kind # "nil"
    /\ input.Fields[2] = Field("minimumSeeders", JString("x"))
    /\ record.Attrs["minimumSeeders"] = Known(ZeroValue("minimumSeeders"))

\* the tables that list a name
TablesListing(name) ==
    {t \in {indexerBoolFields, indexerIntFields, indexerFloatFields, indexerStringFields,
            indexerIntSliceFields} : Contains(t, name)}

\* C20: the partition tables are pairwise disjoint and duplicate-free: no
\* name is in two tables or twice in one, so every entry writeIndexer
\* translates is translated by the one branch of its declared type.
C20_DisjointPartitions ==
    /\ \A name \in IndexerFieldNames : Cardinality(TablesListing(name)) = 1
    /\ \A t \in {indexerBoolFields, indexerIntFields, indexerFloatFields, indexerStringFields,
                  indexerIntSliceFields} :
           \A i, j \in 1..Len(t) : t[i] = t[j] => i = j
    /\ pc = "written"
           => \A i \in 1..Len(input.Fields) :
                  (input.Fields[i].Name \in IndexerFieldNames /\ input.Fields[i].Value.kind # "nil")
                      => record.Attrs[input.Fields[i].Name].Value.kind
                             = ZeroValue(input.Fields[i].Name).kind

C20_Witness ==
    /\ pc = "written"
    /\ Len(input.Fields) = 2
    /\ input.Fields[1] = Field("seedRatio", JNumber(1, TRUE))
    /\ input.Fields[2] = Field("seedTime", JNumber(1, FALSE))
    /\ record.Attrs["seedRatio"] = Known(GoFloat64(1, TRUE))
    /\ record.Attrs["seedTime"] = Known(GoInt64(1))

\* the declared names: booleans, integers, floats, strings, integer lists,
\* each table in its declared order
PartitionOrder ==
    indexerBoolFields \o indexerIntFields \o indexerFloatFields \o indexerStringFields
        \o indexerIntSliceFields

PositionOf(name) == CHOOSE k \in 1..Len(PartitionOrder) : PartitionOrder[k] = name

\* C21: readIndexerFields emits its entries in the fixed partition order:
\* booleans, then integers, floats, strings, integer lists, each partition in
\* its declared order; a second call on the same record returns the same list.
C21_PartitionOrder ==
    pc \in {"roundtrip", "request"}
        => /\ \A i, j \in 1..Len(output) :
                  i < j => PositionOf(output[i].Name) < PositionOf(output[j].Name)
           /\ readIndexerFields(record) = output

C21_Witness ==
    /\ pc = "roundtrip"
    /\ Len(output) = Len(PartitionOrder)
    /\ output[1].Name = "allowZeroSize"
    /\ output[4].Name = "delay"
    /\ output[8].Name = "seedRatio"
    /\ output[9].Name = "additionalParameters"
    /\ output[18].Name = "animeCategories"

\* the list without the entries that carry no value
WithoutNil(fields) == SelectSeq(fields, LAMBDA f : f.Value.kind # "nil")

\* C22: an entry with a nil value is treated like a missing entry:
\* writeIndexer ends on a list as it ends on the list without its nil-valued
\* entries, with the same record, and no nil value makes it fail.
C22_NilLikeMissing ==
    (pc \in {"written", "panicked"} /\ WithoutNil(input.Fields) # input.Fields)
        => LET without == writeIndexer([input EXCEPT !.Fields = WithoutNil(input.Fields)])
           IN /\ without.panicked = (pc = "panicked")
              /\ without.output = record

C22_Witness ==
    /\ pc = "written"
    /\ Len(input.Fields) = 2
    /\ input.Fields[1] = Field("username", JNil)
    /\ input.Fields[2] = Field("minimumSeeders", JNumber(1, FALSE))
    /\ record.Attrs["username"] = Known(ZeroValue("username"))
    /\ record.Attrs["minimumSeeders"] = Known(GoInt64(1))

(***************************************************************************)
(* Lifecycle of IndexerResource, indexer_resource.go:289-384.              *)
(***************************************************************************)
\* helpers.ClientError, the summary of every failed API call
ClientError == "Client Error"

ErrorDiag(summary) == [severity |-> "error", summary |-> summary]

\* resp.Diagnostics.HasError()
HasError(d) == \E i \in 1..Len(d) : d[i].severity = "error"

\* what req.Plan.Get / req.State.Get append: nothing, or a conversion error
DecodeDiags == {<<>>, <<ErrorDiag("Value Conversion Error")>>}

\* fields the server adds to the submitted ones in its response: none, or a
\* field the schema does not declare and a declared field without a value
ServerExtras ==
    {<<>>, <<Field("extraServerField", JNumber(7, FALSE)), Field("seedTime", JNil)>>}

\* how one operation goes: decoding fails, the API call fails, or the call
\* succeeds and the server answers with the given extra fields
Outcome(decode, fail, extras) == [decode |-> decode, fail |-> fail, extras |-> extras]

Outcomes ==
    {Outcome(d, FALSE, <<>>) : d \in DecodeDiags \ {<<>>}}
        \cup {Outcome(<<>>, TRUE, <<>>)}
        \cup {Outcome(<<>>, FALSE, extras) : extras \in ServerExtras}

\* the same for the calls that send no record
OutcomesByID == {o \in Outcomes : o.extras = <<>>}

\* the record the server keeps for a request and returns, decoded from JSON
Stored(id, request, extras) ==
    [request EXCEPT !.ID = id, !.Fields = FieldsToJSON(request.Fields) \o extras]

\* the server as one operation meets it: the indexer it holds, the next id,
\* and the requests it has received from this operation so far
Server(r, n) == [remote |-> r, nextID |-> n, received |-> 0]

\* the server after one more request, holding r and handing out n next
Received(server, r, n) == [remote |-> r, nextID |-> n, received |-> server.received + 1]

\* a request that changes nothing on the server
Refused(server) == Received(server, server.remote, server.nextID)

ApiResult(err, response, server) == [err |-> err, response |-> response, server |-> server]

\* r.client.AddIndexerContext: the server assigns the id
AddIndexerContext(server, request, fail, extras) ==
    IF fail
    THEN ApiResult(TRUE, NoRemote.indexer, Refused(server))
    ELSE LET created == Stored(server.nextID, request, extras)
         IN ApiResult(FALSE, created,
                      Received(server, [exists |-> TRUE, indexer |-> created], server.nextID + 1))

\* the server knows the id
Found(server, id) == server.remote.exists /\ server.remote.indexer.ID = id

\* r.client.GetIndexerContext
GetIndexerContext(server, id, fail) ==
    IF fail \/ ~Found(server, id)
    THEN ApiResult(TRUE, NoRemote.indexer, Refused(server))
    ELSE ApiResult(FALSE, server.remote.indexer, Refused(server))

\* r.client.UpdateIndexerContext: the record of the request's id is replaced
UpdateIndexerContext(server, request, fail, extras) ==
    IF fail \/ ~Found(server, request.ID)
    THEN ApiResult(TRUE, NoRemote.indexer, Refused(server))
    ELSE LET updated == Stored(request.ID, request, extras)
         IN ApiResult(FALSE, updated,
                      Received(server, [exists |-> TRUE, indexer |-> updated], server.nextID))

\* r.client.DeleteIndexerContext
DeleteIndexerContext(server, id, fail) ==
    IF fail \/ ~Found(server, id)
    THEN ApiResult(TRUE, NoRemote.indexer, Refused(server))
    ELSE ApiResult(FALSE, NoRemote.indexer, Received(server, NoRemote, server.nextID))

\* what a handler leaves behind: resp.State, resp.Diagnostics, whether and
\* with which id the API was called and how the call ended, the server after
Response(st, d, called, err, requestID, responseID, server) ==
    [State |-> st, Diagnostics |-> d, called |-> called, err |-> err,
     requestID |-> requestID, responseID |-> responseID, server |-> server]

\* resp.State.Set(ctx, &result)
Written(response) == [exists |-> TRUE, indexer |-> writeIndexer(response).output]

\* variant: a failed call is issued a second time
IndexerResourceCreate_Retries(planDiags, plan, server, fail, extras) ==
    IF HasError(planDiags)
    THEN Response(NoState, planDiags, FALSE, FALSE, 0, 0, server)
    ELSE LET request == readIndexer(plan)
             first == AddIndexerContext(server, request, fail, extras)
             api == IF first.err
                    THEN AddIndexerContext(first.server, request, fail, extras)
                    ELSE first
         IN IF api.err
            THEN Response(NoState, planDiags \o <<ErrorDiag(ClientError)>>, TRUE, TRUE,
                          request.ID, 0, api.server)
            ELSE Response(Written(api.response), planDiags, TRUE, FALSE,
                          request.ID, api.response.ID, api.server)

\* IndexerResource.Create, lines 289-313; resp.State starts empty
IndexerResourceCreate(planDiags, plan, server, fail, extras) ==
    IF HasError(planDiags)
    THEN Response(NoState, planDiags, FALSE, FALSE, 0, 0, server)
    ELSE LET request == readIndexer(plan)
             api == AddIndexerContext(server, request, fail, extras)
         IN IF api.err
            THEN Response(NoState, planDiags \o <<ErrorDiag(ClientError)>>, TRUE, TRUE,
                          request.ID, 0, api.server)
            ELSE Response(Written(api.response), planDiags, TRUE, FALSE,
                          request.ID, api.response.ID, api.server)

\* variant: no return after the error of the API call is reported
IndexerResourceRead_NoReturn(prior, stateDiags, server, fail) ==
    IF HasError(stateDiags)
    THEN Response(prior, stateDiags, FALSE, FALSE, 0, 0, server)
    ELSE LET id == prior.indexer.ID.Value.n
             api == GetIndexerContext(server, id, fail)
         IN IF api.err
            THEN Response(Written(api.response), stateDiags \o <<ErrorDiag(ClientError)>>,
                          TRUE, TRUE, id, 0, api.server)
            ELSE Response(Written(api.response), stateDiags, TRUE, FALSE,
                          id, api.response.ID, api.server)

\* variant: the name the prior state holds is kept
IndexerResourceRead_KeepsName(prior, stateDiags, server, fail) ==
    IF HasError(stateDiags)
    THEN Response(prior, stateDiags, FALSE, FALSE, 0, 0, server)
    ELSE LET id == prior.indexer.ID.Value.n
             api == GetIndexerContext(server, id, fail)
         IN IF api.err
            THEN Response(prior, stateDiags \o <<ErrorDiag(ClientError)>>, TRUE, TRUE,
                          id, 0, api.server)
            ELSE Response([Written(api.response) EXCEPT !.indexer.Name = prior.indexer.Name],
                          stateDiags, TRUE, FALSE, id, api.response.ID, api.server)

\* IndexerResource.Read, lines 315-337; resp.State starts as the prior state
IndexerResourceRead(prior, stateDiags, server, fail) ==
    IF HasError(stateDiags)
    THEN Response(prior, stateDiags, FALSE, FALSE, 0, 0, server)
    ELSE LET id == prior.indexer.ID.Value.n
             api == GetIndexerContext(server, id, fail)
         IN IF api.err
            THEN Response(prior, stateDiags \o <<ErrorDiag(ClientError)>>, TRUE, TRUE,
                          id, 0, api.server)
            ELSE Response(Written(api.response), stateDiags, TRUE, FALSE,
                          id, api.response.ID, api.server)

\* IndexerResource.Update, lines 339-363; resp.State starts as the prior state
IndexerResourceUpdate(prior, planDiags, plan, server, fail, extras) ==
    IF HasError(planDiags)
    THEN Response(prior, planDiags, FALSE, FALSE, 0, 0, server)
    ELSE LET request == readIndexer(plan)
             api == UpdateIndexerContext(server, request, fail, extras)
         IN IF api.err
            THEN Response(prior, planDiags \o <<ErrorDiag(ClientError)>>, TRUE, TRUE,
                          request.ID, 0, api.server)
            ELSE Response(Written(api.response), planDiags, TRUE, FALSE,
                          request.ID, api.response.ID, api.server)

\* variant: the resource is removed from state whatever the call returned
IndexerResourceDelete_AlwaysRemoves(prior, stateDiags, server, fail) ==
    IF HasError(stateDiags)
    THEN Response(prior, stateDiags, FALSE, FALSE, 0, 0, server)
    ELSE LET id == prior.indexer.ID.Value.n
             api == DeleteIndexerContext(server, id, fail)
         IN IF api.err
            THEN Response(NoState, stateDiags \o <<ErrorDiag(ClientError)>>, TRUE, TRUE,
                          id, 0, api.server)
            ELSE Response(NoState, stateDiags, TRUE, FALSE, id, 0, api.server)

\* IndexerResource.Delete, lines 365-384; resp.State.RemoveResource on success
IndexerResourceDelete(prior, stateDiags, server, fail) ==
    IF HasError(stateDiags)
    THEN Response(prior, stateDiags, FALSE, FALSE, 0, 0, server)
    ELSE LET id == prior.indexer.ID.Value.n
             api == DeleteIndexerContext(server, id, fail)
         IN IF api.err
            THEN Response(prior, stateDiags \o <<ErrorDiag(ClientError)>>, TRUE, TRUE,
                          id, 0, api.server)
            ELSE Response(NoState, stateDiags, TRUE, FALSE, id, 0, api.server)

\* variant: the id attribute without its plan modifier
PlanID_NoModifier(prior) == UnknownID

\* the id of a plan: Computed with the UseStateForUnknown plan modifier
\* (schema, lines 145-152): unknown without prior state, else the state's id
PlanID(prior) == IF prior.exists THEN prior.indexer.ID ELSE UnknownID

\* the configurations of the tracked resource set minimumSeeders, username
\* and categories
LifecycleConfigs ==
    {cfg \in PlanConfigs : DOMAIN cfg \subseteq {"minimumSeeders", "username", "categories"}}

\* the plans Terraform hands to Create and Update: unconfigured
\* Optional+Computed attributes are unknown
LifecyclePlans(prior) ==
    {PlanIndexer(PlanID(prior), name, cfg, FALSE)
        : name \in PlanNamesOfResource, cfg \in LifecycleConfigs}

\* the operation is recorded and its response applied
Apply(op, plan, resp) ==
    /\ state' = resp.State
    /\ diags' = resp.Diagnostics
    /\ remote' = resp.server.remote
    /\ nextID' = resp.server.nextID
    /\ last' = [op |-> op, called |-> resp.called, err |-> resp.err, plan |-> plan,
                requestID |-> resp.requestID]
    /\ createdID' = IF op = "Create" /\ resp.called /\ ~resp.err THEN resp.responseID
                    ELSE IF op = "Delete" /\ resp.called /\ ~resp.err THEN 0
                    ELSE createdID
    /\ calls' = resp.server.received
    /\ imported' = IF ~resp.called \/ resp.err THEN imported
                   ELSE IF op = "Read" THEN [imported EXCEPT !.read = imported.active]
                   ELSE NoImport
    /\ UNCHANGED <<marshalVars, providerVars, concurrentVars, lookup, conversion>>

Create ==
    /\ ~state.exists
    /\ nextID <= MaxCreates
    /\ \E plan \in LifecyclePlans(state), o \in Outcomes :
           Apply("Create", plan,
                 IndexerResourceCreate(o.decode, plan, Server(remote, nextID), o.fail, o.extras))

Read ==
    /\ state.exists
    /\ \E o \in OutcomesByID :
           Apply("Read", ZeroIndexer,
                 IndexerResourceRead(state, o.decode, Server(remote, nextID), o.fail))

Update ==
    /\ state.exists
    /\ \E plan \in LifecyclePlans(state), o \in Outcomes :
           Apply("Update", plan,
                 IndexerResourceUpdate(state, o.decode, plan, Server(remote, nextID),
                                       o.fail, o.extras))

Delete ==
    /\ state.exists
    /\ \E o \in OutcomesByID :
           Apply("Delete", ZeroIndexer,
                 IndexerResourceDelete(state, o.decode, Server(remote, nextID), o.fail))

\* field lists an operator of the server gives the indexer outside Terraform
EditedFields ==
    {<<Field("username", JString("edited"))>>,
     <<Field("categories", JArray(<<>>)), Field("extraServerField", JNumber(7, FALSE))>>}

\* the indexer is edited on the server itself
ServerEdit ==
    /\ remote.exists
    /\ \E fields \in EditedFields : remote' = [remote EXCEPT !.indexer.Fields = fields]
    /\ UNCHANGED <<nextID, state, diags, last, createdID, calls, imported>>
    /\ UNCHANGED <<marshalVars, providerVars, concurrentVars, lookup, conversion>>

\* the indexer is removed on the server itself
ServerRemove ==
    /\ remote.exists
    /\ remote' = NoRemote
    /\ UNCHANGED <<nextID, state, diags, last, createdID, calls, imported>>
    /\ UNCHANGED <<marshalVars, providerVars, concurrentVars, lookup, conversion>>

Init ==
    /\ conversion = NoConversion
    /\ lookup = NoLookup
    /\ InitMarshalIdle
    /\ InitLifecycle
    /\ InitProviderIdle
    /\ InitConcurrentIdle

Next == Create \/ Read \/ Update \/ Delete \/ ServerEdit \/ ServerRemove

Spec == Init /\ [][Next]_vars

(***************************************************************************)
(* Properties of the lifecycle.                                            *)
(***************************************************************************)
Succeeded(op) == last.op = op /\ last.called /\ ~last.err

HasClientError(d) == \E i \in 1..Len(d) : d[i] = ErrorDiag(ClientError)

\* C7: after a successful Create or Update against a server that stores and
\* returns the submitted fields, the state holds, for every field-backed
\* attribute the plan set, the value the plan gave it.
C7_PlanValuesInState ==
    (Succeeded("Create") \/ Succeeded("Update"))
        => \A name \in IndexerFieldNames :
               ~IsUnset(last.plan.Attrs[name])
                   => state.indexer.Attrs[name] = last.plan.Attrs[name]

C7_Witness ==
    /\ Succeeded("Update")
    /\ createdID # 0
    /\ last.plan.Attrs["username"] = Known(GoString("Username"))
    /\ state.indexer.Attrs["username"] = Known(GoString("Username"))

\* C8: the id is the one the server returned at Create and never changes:
\* as long as the resource is in state its id is that id, and every Update
\* request carries it.
C8_IDImmutable ==
    /\ (state.exists /\ createdID # 0) => state.indexer.ID = Known(GoInt64(createdID))
    /\ (last.op = "Update" /\ last.called) => last.requestID = createdID

C8_Witness ==
    /\ Succeeded("Update")
    /\ createdID = 2
    /\ last.requestID = 2
    /\ state.indexer.ID = Known(GoInt64(2))

\* C9: when the API call of Create, Read or Update fails, a "Client Error"
\* diagnostic is reported and the state after the operation is the state
\* before it.
C9_FailedCallKeepsState ==
    [][(last'.op \in {"Create", "Read", "Update"} /\ last'.called /\ last'.err)
           => (state' = state /\ HasClientError(diags'))]_vars

C9_Witness ==
    /\ last.op = "Read"
    /\ last.called
    /\ last.err
    /\ remote.exists
    /\ state.exists
    /\ HasClientError(diags)

\* C10: Delete removes the resource from state exactly when the remote
\* delete call succeeded: a failed call reports "Client Error" and keeps the
\* resource, a successful one removes it and adds no diagnostic.
C10_DeleteIffCallSucceeded ==
    last.op = "Delete"
        => /\ ~state.exists <=> (last.called /\ ~last.err)
           /\ (last.called /\ last.err) => (state.exists /\ HasClientError(diags))
           /\ (last.called /\ ~last.err) => diags = <<>>

C10_Witness ==
    /\ last.op = "Delete"
    /\ last.called
    /\ last.err
    /\ remote.exists
    /\ state.exists

\* decoding the plan or the state of the last operation produced an error
DecodeFailed == \E i \in 1..Len(diags) : \E d \in DecodeDiags : d # <<>> /\ diags[i] = d[1]

\* C18: each of Create, Read, Update and Delete issues at most one remote API
\* call: exactly one when decoding the plan or state produced no error
\* diagnostic, none otherwise; a failed call is not repeated.
C18_OneCall ==
    last.op \in {"Create", "Read", "Update", "Delete"}
        => /\ calls <= 1
           /\ calls = 1 <=> ~DecodeFailed
           /\ last.called <=> calls = 1
           /\ last.err => (calls = 1 /\ HasClientError(diags))

C18_Witness ==
    /\ last.op = "Create"
    /\ last.err
    /\ calls = 1
    /\ ~remote.exists
    /\ HasClientError(diags)

(***************************************************************************)
(* ImportState, indexer_resource.go:386-400 (the same code in              *)
(* download_client_pneumatic_resource.go:261-275 and                       *)
(* language_profile_resource.go:180-191).  An import identifier is the     *)
(* sequence of its characters.                                             *)
(***************************************************************************)
Digits == <<"0", "1", "2", "3", "4", "5", "6", "7", "8", "9">>

DigitValue(c) == CHOOSE d \in 0..9 : Digits[d + 1] = c

\* the number a sequence of decimal digits writes, most significant first
RECURSIVE ParseDigits(_, _)
ParseDigits(s, acc) ==
    IF s = <<>> THEN acc ELSE ParseDigits(Tail(s), 10 * acc + DigitValue(Head(s)))

\* variant: the leading digits are converted and the rest is ignored
Atoi_LeadingDigits(s) ==
    LET body == IF s # <<>> /\ s[1] \in {"+", "-"} THEN Tail(s) ELSE s
        stop == IF \E i \in 1..Len(body) : ~Contains(Digits, body[i])
                THEN CHOOSE i \in 1..Len(body) :
                         ~Contains(Digits, body[i]) /\ \A j \in 1..(i - 1) : Contains(Digits, body[j])
                ELSE Len(body) + 1
        value == ParseDigits(SubSeq(body, 1, stop - 1), 0)
    IN IF stop = 1
       THEN [err |-> TRUE, value |-> 0]
       ELSE [err |-> FALSE, value |-> IF s[1] = "-" THEN 0 - value ELSE value]

\* strconv.Atoi(req.ID): an optional sign, then one or more decimal digits and
\* nothing else; anything else is an error
Atoi(s) ==
    LET body == IF s # <<>> /\ s[1] \in {"+", "-"} THEN Tail(s) ELSE s
    IN IF body = <<>> \/ \E i \in 1..Len(body) : ~Contains(Digits, body[i])
       THEN [err |-> TRUE, value |-> 0]
       ELSE [err |-> FALSE,
             value |-> IF s[1] = "-" THEN 0 - ParseDigits(body, 0) ELSE ParseDigits(body, 0)]

\* helpers.UnexpectedImportIdentifier
UnexpectedImportIdentifier == "Unexpected Import Identifier"

\* the Indexer of a state no attribute of which is set
NullIndexer ==
    [EnableAutomaticSearch |-> Attr(FALSE, TRUE, GoBool(FALSE)),
     EnableInteractiveSearch |-> Attr(FALSE, TRUE, GoBool(FALSE)),
     EnableRss |-> Attr(FALSE, TRUE, GoBool(FALSE)),
     Priority |-> Attr(FALSE, TRUE, GoInt64(0)),
     DownloadClientID |-> Attr(FALSE, TRUE, GoInt64(0)),
     ID |-> Attr(FALSE, TRUE, GoInt64(0)),
     ConfigContract |-> NullString,
     Implementation |-> NullString,
     Name |-> NullString,
     Protocol |-> NullString,
     Tags |-> Attr(FALSE, TRUE, GoSet(<<>>)),
     Attrs |-> [name \in IndexerFieldNames |-> Attr(FALSE, TRUE, ZeroValue(name))]]

\* resp.State.SetAttribute(ctx, path.Root("id"), id) on the empty state
ImportedState(id) == [exists |-> TRUE, indexer |-> [NullIndexer EXCEPT !.ID = Known(GoInt64(id))]]

\* IndexerResource.ImportState, lines 386-400; resp.State starts empty
IndexerResourceImportState(reqID, server) ==
    LET parsed == Atoi(reqID)
    IN IF parsed.err
       THEN Response(NoState, <<ErrorDiag(UnexpectedImportIdentifier)>>,
                     FALSE, FALSE, 0, 0, server)
       ELSE Response(ImportedState(parsed.value), <<>>, FALSE, FALSE, 0, 0, server)

\* identifiers handed to terraform import, with the integer each one writes
\* (0 stands in where it writes none)
ImportIDs ==
    {<<"1">>, <<"2">>, <<"+", "1">>, <<"-", "1">>, <<>>, <<"1", "x">>, <<"1", ".", "0">>}

\* terraform import: the state the import builds becomes the tracked state
ImportState ==
    /\ \E reqID \in ImportIDs :
           LET resp == IndexerResourceImportState(reqID, Server(remote, nextID))
           IN /\ state' = resp.State
              /\ diags' = resp.Diagnostics
              /\ calls' = resp.server.received
              /\ imported' = [active |-> resp.State.exists, read |-> FALSE, text |-> reqID,
                              before |-> IF imported.active /\ ~imported.read
                                         THEN NoState ELSE state]
    /\ last' = [NoOperation EXCEPT !.op = "ImportState"]
    /\ createdID' = 0
    /\ UNCHANGED <<remote, nextID>>
    /\ UNCHANGED <<marshalVars, providerVars, concurrentVars, lookup, conversion>>

\* the plans of the acceptance test, indexer_filelist_resource_test.go:43-54:
\* username "user" at first, "Username" after the update
TestPlans(prior) ==
    {PlanIndexer(PlanID(prior), "filelistResourceTest",
                 [a \in {"username"} |-> GoString(username)], FALSE)
        : username \in {"user", "Username"}}

\* the test's resource is created once, on a server nobody else edits
TestCreate ==
    /\ ~state.exists
    /\ nextID = 1
    /\ \E plan \in TestPlans(state), o \in Outcomes :
           Apply("Create", plan,
                 IndexerResourceCreate(o.decode, plan, Server(remote, nextID), o.fail, o.extras))

TestUpdate ==
    /\ state.exists
    /\ \E plan \in TestPlans(state), o \in Outcomes :
           Apply("Update", plan,
                 IndexerResourceUpdate(state, o.decode, plan, Server(remote, nextID),
                                       o.fail, o.extras))

SpecImport == Init /\ [][TestCreate \/ Read \/ TestUpdate \/ ImportState]_vars

(***************************************************************************)
(* Properties of ImportState.                                              *)
(***************************************************************************)
\* C11: import round trip: for a resource the server holds, ImportState with
\* its identifier followed by Read yields the state that was held, after the
\* preceding Create/Update and Read, before the import.
C11_ImportRoundTrip ==
    (Succeeded("Read") /\ imported.active /\ imported.before.exists
         /\ imported.before.indexer.ID = state.indexer.ID)
        => state = imported.before

C11_Witness ==
    /\ Succeeded("Read")
    /\ imported.active
    /\ imported.text = <<"1">>
    /\ imported.before.exists
    /\ state = imported.before
    /\ state.indexer.Attrs["username"] = Known(GoString("Username"))

\* the integer an identifier of ImportIDs is the decimal writing of, if any
IntegerOf ==
    [t \in ImportIDs |->
        IF t = <<"1">> \/ t = <<"+", "1">> THEN <<1>>
        ELSE IF t = <<"2">> THEN <<2>>
        ELSE IF t = <<"-", "1">> THEN <<0 - 1>>
        ELSE <<>>]

\* C12: ImportState accepts only an identifier that parses as an integer: for
\* any other it reports "Unexpected Import Identifier" and sets no id in the
\* state; for an integer it sets id to that integer and reports no error.
C12_ImportIdentifier ==
    last.op = "ImportState"
        => IF IntegerOf[imported.text] = <<>>
           THEN /\ ~state.exists
                /\ diags = <<ErrorDiag(UnexpectedImportIdentifier)>>
           ELSE /\ state.exists
                /\ state.indexer.ID = Known(GoInt64(IntegerOf[imported.text][1]))
                /\ ~HasError(diags)

C12_Witness ==
    /\ last.op = "ImportState"
    /\ imported.text = <<"1", "x">>
    /\ ~state.exists
    /\ HasError(diags)
    /\ remote.exists

(***************************************************************************)
(* SonarrProvider.Configure, provider.go:62-131.                           *)
(***************************************************************************)
Diag(severity, summary, detail) == [severity |-> severity, summary |-> summary, detail |-> detail]

UnknownURL == Diag("warning", "Unable to create client", "Cannot use unknown value as url")

EmptyURL == Diag("error", "Unable to find URL", "URL cannot be an empty string")

UnknownAPIKey == Diag("warning", "Unable to create client", "Cannot use unknown value as api_key")

EmptyAPIKey == Diag("error", "Unable to find API key", "API key cannot be an empty string")

\* sonarr.New(starr.New(key, url, 0))
Client(key, url) == [set |-> TRUE, url |-> url, key |-> key]

\* variant: the client is handed to the resources only
Configured_ResourceOnly(d, client) ==
    [done |-> TRUE, Diagnostics |-> d, DataSourceData |-> NoClient, ResourceData |-> client]

\* Configure returned: its diagnostics and the client it handed out, if any
Configured(d, client) ==
    [done |-> TRUE, Diagnostics |-> d, DataSourceData |-> client, ResourceData |-> client]

\* variant: the environment is looked at first, the attribute only when it is empty
SonarrProviderConfigure_EnvFirst(data, environ) ==
    IF HasError(data.diags) THEN Configured(data.diags, NoClient)
    ELSE IF data.URL.Unknown THEN Configured(data.diags \o <<UnknownURL>>, NoClient)
    ELSE LET url == IF data.URL.Null \/ environ.SONARR_URL # ""
                    THEN environ.SONARR_URL ELSE data.URL.Value.s
         IN IF url = "" THEN Configured(data.diags \o <<EmptyURL>>, NoClient)
            ELSE IF data.APIKey.Unknown
            THEN Configured(data.diags \o <<UnknownAPIKey>>, NoClient)
            ELSE LET key == IF data.APIKey.Null \/ environ.SONARR_API_KEY # ""
                            THEN environ.SONARR_API_KEY ELSE data.APIKey.Value.s
                 IN IF key = "" THEN Configured(data.diags \o <<EmptyAPIKey>>, NoClient)
                    ELSE Configured(data.diags, Client(key, url))

\* variant: an empty api_key in the configuration falls back to the environment
SonarrProviderConfigure_EmptyFallsBack(data, environ) ==
    IF HasError(data.diags) THEN Configured(data.diags, NoClient)
    ELSE IF data.URL.Unknown THEN Configured(data.diags \o <<UnknownURL>>, NoClient)
    ELSE LET url == IF data.URL.Null THEN environ.SONARR_URL ELSE data.URL.Value.s
         IN IF url = "" THEN Configured(data.diags \o <<EmptyURL>>, NoClient)
            ELSE IF data.APIKey.Unknown
            THEN Configured(data.diags \o <<UnknownAPIKey>>, NoClient)
            ELSE LET key == IF data.APIKey.Null \/ data.APIKey.Value.s = ""
                            THEN environ.SONARR_API_KEY ELSE data.APIKey.Value.s
                 IN IF key = "" THEN Configured(data.diags \o <<EmptyAPIKey>>, NoClient)
                    ELSE Configured(data.diags, Client(key, url))

\* variant: an unknown api_key is treated as a null one
SonarrProviderConfigure_UnknownAsNull(data, environ) ==
    IF HasError(data.diags) THEN Configured(data.diags, NoClient)
    ELSE IF data.URL.Unknown THEN Configured(data.diags \o <<UnknownURL>>, NoClient)
    ELSE LET url == IF data.URL.Null THEN environ.SONARR_URL ELSE data.URL.Value.s
         IN IF url = "" THEN Configured(data.diags \o <<EmptyURL>>, NoClient)
            ELSE LET key == IF data.APIKey.Null \/ data.APIKey.Unknown
                            THEN environ.SONARR_API_KEY ELSE data.APIKey.Value.s
                 IN IF key = "" THEN Configured(data.diags \o <<EmptyAPIKey>>, NoClient)
                    ELSE Configured(data.diags, Client(key, url))

\* variant: the checks of url do not return, the checks of api_key follow them
SonarrProviderConfigure_ChecksBoth(data, environ) ==
    IF HasError(data.diags) THEN Configured(data.diags, NoClient)
    ELSE LET url == IF data.URL.Null THEN environ.SONARR_URL ELSE data.URL.Value.s
             key == IF data.APIKey.Null THEN environ.SONARR_API_KEY ELSE data.APIKey.Value.s
             aboutURL == IF data.URL.Unknown THEN <<UnknownURL>>
                         ELSE IF url = "" THEN <<EmptyURL>> ELSE <<>>
             aboutKey == IF data.APIKey.Unknown THEN <<UnknownAPIKey>>
                         ELSE IF key = "" THEN <<EmptyAPIKey>> ELSE <<>>
         IN Configured(data.diags \o aboutURL \o aboutKey,
                       IF aboutURL \o aboutKey = <<>> THEN Client(key, url) ELSE NoClient)

\* SonarrProvider.Configure: data is the decoded configuration with the
\* diagnostics of req.Config.Get, environ what os.Getenv returns
SonarrProviderConfigure(data, environ) ==
    IF HasError(data.diags) THEN Configured(data.diags, NoClient)
    ELSE IF data.URL.Unknown THEN Configured(data.diags \o <<UnknownURL>>, NoClient)
    ELSE LET url == IF data.URL.Null THEN environ.SONARR_URL ELSE data.URL.Value.s
         IN IF url = "" THEN Configured(data.diags \o <<EmptyURL>>, NoClient)
            ELSE IF data.APIKey.Unknown
            THEN Configured(data.diags \o <<UnknownAPIKey>>, NoClient)
            ELSE LET key == IF data.APIKey.Null THEN environ.SONARR_API_KEY
                            ELSE data.APIKey.Value.s
                 IN IF key = "" THEN Configured(data.diags \o <<EmptyAPIKey>>, NoClient)
                    ELSE Configured(data.diags, Client(key, url))

\* what an Optional string attribute decodes to: left out, not yet known,
\* the empty string, or the given text
StringAttrs(text) ==
    {NullString, Attr(TRUE, FALSE, GoString("")), Known(GoString("")), Known(GoString(text))}

\* the configurations Terraform hands over; one that does not decode carries
\* its error and no attribute
ProviderConfigs ==
    {[URL |-> u, APIKey |-> k, diags |-> <<>>]
        : u \in StringAttrs("http://config:8989"), k \in StringAttrs("configKey")}
        \cup {[NoConfig EXCEPT !.diags = d] : d \in DecodeDiags \ {<<>>}}

\* the environment of the provider process: a variable not set reads as ""
ProviderEnvs ==
    {[SONARR_URL |-> u, SONARR_API_KEY |-> k] : u \in {"", "http://env:8989"}, k \in {"", "envKey"}}

InitProvider ==
    /\ conversion = NoConversion
    /\ lookup = NoLookup
    /\ InitMarshalIdle
    /\ InitLifecycle
    /\ InitConcurrentIdle
    /\ config \in ProviderConfigs
    /\ env \in ProviderEnvs
    /\ configure = NoConfigure
    /\ consumers = [c \in DOMAIN ConfigureSummaries |-> NotConfigured]

\* Terraform calls Configure once per provider instance
ProviderConfigure ==
    /\ ~configure.done
    /\ configure' = SonarrProviderConfigure(config, env)
    /\ UNCHANGED <<config, env, consumers>>
    /\ UNCHANGED <<marshalVars, lifecycleVars, concurrentVars, lookup, conversion>>

SpecProvider == InitProvider /\ [][ProviderConfigure]_vars

(***************************************************************************)
(* Properties of the provider configuration.                               *)
(***************************************************************************)
Decoded == configure.done /\ ~HasError(config.diags)

HasWarning(d) == \E i \in 1..Len(d) : d[i].severity = "warning"

NoData == ~configure.DataSourceData.set /\ ~configure.ResourceData.set

\* the value an attribute that is not unknown resolves to
Resolved(attribute, variable) == IF attribute.Null THEN variable ELSE attribute.Value.s

ResolvesEmpty(attribute, variable) == ~attribute.Unknown /\ Resolved(attribute, variable) = ""

\* C13: Configure resolves url and api_key independently: a null attribute
\* takes the value of SONARR_URL, respectively SONARR_API_KEY; a set attribute
\* gives its own value whatever the environment holds.  The client it hands
\* out is built from these two values.
C13_ResolvedIndependently ==
    (Decoded /\ configure.ResourceData.set)
        => /\ configure.ResourceData.url = Resolved(config.URL, env.SONARR_URL)
           /\ configure.ResourceData.key = Resolved(config.APIKey, env.SONARR_API_KEY)
           /\ configure.DataSourceData = configure.ResourceData

C13_Witness ==
    /\ Decoded
    /\ config.URL = Known(GoString("http://config:8989"))
    /\ env.SONARR_URL = "http://env:8989"
    /\ config.APIKey.Null
    /\ configure.ResourceData = Client("envKey", "http://config:8989")

\* C14 as stated: whenever the resolved url or the resolved api_key is the
\* empty string, an error diagnostic is added and no data is set.
C14_EmptyIsError ==
    (Decoded /\ (ResolvesEmpty(config.URL, env.SONARR_URL)
                     \/ ResolvesEmpty(config.APIKey, env.SONARR_API_KEY)))
        => (HasError(configure.Diagnostics) /\ NoData)

\* C14, amended: when the resolved url or the resolved api_key is the empty
\* string no data is set; an error diagnostic is added unless url is unknown,
\* in which case Configure has returned with the url warning before it looked
\* at api_key.
C14_EmptyStops ==
    (Decoded /\ (ResolvesEmpty(config.URL, env.SONARR_URL)
                     \/ ResolvesEmpty(config.APIKey, env.SONARR_API_KEY)))
        => /\ NoData
           /\ HasError(configure.Diagnostics) <=> ~config.URL.Unknown
           /\ config.URL.Unknown => configure.Diagnostics = <<UnknownURL>>

C14_Witness ==
    /\ Decoded
    /\ config.URL = Known(GoString("http://config:8989"))
    /\ config.APIKey = Known(GoString(""))
    /\ env.SONARR_API_KEY = "envKey"
    /\ configure.Diagnostics = <<EmptyAPIKey>>
    /\ NoData

\* C15 as stated: whenever url or api_key is unknown, a warning and no error
\* is added and no data is set.
C15_UnknownIsWarning ==
    (Decoded /\ (config.URL.Unknown \/ config.APIKey.Unknown))
        => (HasWarning(configure.Diagnostics) /\ ~HasError(configure.Diagnostics) /\ NoData)

\* C15, amended: Configure never builds a client from an unknown value: when
\* url or api_key is unknown no data is set; a warning and no error is added,
\* unless api_key is the unknown one and url resolves to the empty string, in
\* which case Configure has returned with the url error and no warning.
C15_UnknownStops ==
    (Decoded /\ (config.URL.Unknown \/ config.APIKey.Unknown))
        => /\ NoData
           /\ IF ResolvesEmpty(config.URL, env.SONARR_URL)
              THEN configure.Diagnostics = <<EmptyURL>>
              ELSE HasWarning(configure.Diagnostics) /\ ~HasError(configure.Diagnostics)

C15_Witness ==
    /\ Decoded
    /\ config.URL.Null
    /\ env.SONARR_URL = "http://env:8989"
    /\ config.APIKey.Unknown
    /\ env.SONARR_API_KEY = "envKey"
    /\ configure.Diagnostics = <<UnknownAPIKey>>
    /\ NoData

\* the attribute is unknown, or it resolves to the empty string
Unusable(attribute, variable) == attribute.Unknown \/ ResolvesEmpty(attribute, variable)

\* C24: Configure checks url completely before api_key and returns at the
\* first problem: a run ends with at most one diagnostic, and when url is
\* unknown or empty the diagnostic is the one about url, whatever api_key is.
C24_FirstProblemOnly ==
    configure.done
        => /\ Len(configure.Diagnostics) <= 1
           /\ (Decoded /\ Unusable(config.URL, env.SONARR_URL))
                  => configure.Diagnostics
                         = IF config.URL.Unknown THEN <<UnknownURL>> ELSE <<EmptyURL>>

C24_Witness ==
    /\ Decoded
    /\ config.URL.Null
    /\ env.SONARR_URL = ""
    /\ config.APIKey = Known(GoString(""))
    /\ configure.Diagnostics = <<EmptyURL>>

\* C25: after Configure, DataSourceData is set exactly when ResourceData is,
\* both hold the same client, and they are set exactly when the run ended
\* without a diagnostic, which is when the configuration decoded and url and
\* api_key are both known and not empty.
C25_DataIffClean ==
    configure.done
        => /\ configure.DataSourceData.set <=> configure.ResourceData.set
           /\ configure.DataSourceData = configure.ResourceData
           /\ configure.ResourceData.set
                  <=> (~HasWarning(configure.Diagnostics) /\ ~HasError(configure.Diagnostics))
           /\ configure.ResourceData.set
                  <=> /\ ~HasError(config.diags)
                      /\ ~Unusable(config.URL, env.SONARR_URL)
                      /\ ~Unusable(config.APIKey, env.SONARR_API_KEY)

C25_Witness ==
    /\ configure.done
    /\ configure.Diagnostics = <<>>
    /\ config.URL.Null
    /\ config.APIKey = Known(GoString("configKey"))
    /\ configure.DataSourceData = Client("configKey", "http://env:8989")
    /\ configure.ResourceData = Client("configKey", "http://env:8989")

(***************************************************************************)
(* Configure of the resources and data sources: IndexerResource            *)
(* (indexer_resource.go:270-287), DownloadClientPneumaticResource          *)
(* (download_client_pneumatic_resource.go:145-162) and IndexerDataSource   *)
(* (notification_signal_resource.go:562-579).  The three bodies differ in  *)
(* the constant of the error summary only.                                 *)
(***************************************************************************)
\* variant: a provider data of another type clears the client
ResourceConfigure_Clears(summary, r, req) ==
    IF req.type = "nil"
    THEN [r EXCEPT !.Diagnostics = <<>>, !.ProviderData = req, !.calls = @ + 1]
    ELSE IF req.type # "*sonarr.Sonarr"
    THEN [client |-> NoClient, Diagnostics |-> <<ErrorDiag(summary)>>, ProviderData |-> req,
          calls |-> r.calls + 1]
    ELSE [client |-> req.value, Diagnostics |-> <<>>, ProviderData |-> req,
          calls |-> r.calls + 1]

\* Configure of the resource or data source r on the request req; the
\* response starts without diagnostics
ResourceConfigure(summary, r, req) ==
    IF req.type = "nil"
    THEN [r EXCEPT !.Diagnostics = <<>>, !.ProviderData = req, !.calls = @ + 1]
    ELSE IF req.type # "*sonarr.Sonarr"
    THEN [r EXCEPT !.Diagnostics = <<ErrorDiag(summary)>>, !.ProviderData = req,
                   !.calls = @ + 1]
    ELSE [client |-> req.value, Diagnostics |-> <<>>, ProviderData |-> req,
          calls |-> r.calls + 1]

\* the provider data of a request: what provider Configure left in
\* ResourceData or DataSourceData, nil when it set nothing
Handed(c) ==
    LET data == IF c = "IndexerDataSource" THEN configure.DataSourceData
                ELSE configure.ResourceData
    IN IF data.set THEN ProviderData("*sonarr.Sonarr", data) ELSE ProviderData("nil", NoClient)

\* the framework configures an instance after the provider, and may do so
\* again; the request carries the provider's data, or, from a provider
\* other than this one, a value of another type
ConsumerConfigure ==
    /\ configure.done
    /\ \E c \in DOMAIN ConfigureSummaries :
          \E req \in {Handed(c), ProviderData("string", NoClient)} :
              /\ consumers[c].calls < MaxConfigures
              /\ consumers' = [consumers EXCEPT
                                   ![c] = ResourceConfigure(ConfigureSummaries[c], @, req)]
    /\ UNCHANGED <<config, env, configure>>
    /\ UNCHANGED <<marshalVars, lifecycleVars, concurrentVars, lookup, conversion>>

SpecConfigure == InitProvider /\ [][ProviderConfigure \/ ConsumerConfigure]_vars

\* C23: Configure of a resource or data source never fails on an
\* unconfigured provider: on nil provider data it adds no diagnostic and the
\* client stays unset; on provider data of another type it adds an error and
\* leaves the client as it was; on a client it sets the client to it.
C23_ConfigureByProviderData ==
    [][\A c \in DOMAIN ConfigureSummaries :
           consumers'[c] # consumers[c]
               => LET before == consumers[c]
                      after == consumers'[c]
                      req == after.ProviderData
                  IN /\ req.type = "nil"
                            => /\ after.Diagnostics = <<>>
                               /\ after.client = before.client
                               /\ ~after.client.set
                     /\ req.type \notin {"nil", "*sonarr.Sonarr"}
                            => /\ HasError(after.Diagnostics)
                               /\ after.client = before.client
                     /\ req.type = "*sonarr.Sonarr"
                            => /\ after.Diagnostics = <<>>
                               /\ after.client = req.value
                               /\ after.client.set]_vars

C23_Witness ==
    /\ configure.done
    /\ ~configure.ResourceData.set
    /\ consumers["IndexerResource"].calls = 1
    /\ consumers["IndexerResource"].ProviderData.type = "nil"
    /\ consumers["IndexerResource"].Diagnostics = <<>>
    /\ ~consumers["IndexerResource"].client.set
    /\ consumers["IndexerDataSource"].calls = 1
    /\ consumers["IndexerDataSource"].ProviderData.type = "string"
    /\ HasError(consumers["IndexerDataSource"].Diagnostics)
    /\ ~consumers["IndexerDataSource"].client.set


(* state: writeIndexer, DownloadClientPneumatic.write                      *)
(* (download_client_pneumatic_resource.go:277-290) and                     *)
(* NotificationKodi.write (notification_kodi_resource.go:394-398).  The    *)
(* records of the last two are built with types.BoolValue and its like,    *)
(* whose zero value is null.  A record is its common attributes and its    *)
(* field-backed attributes, each by name.                                  *)
(***************************************************************************)
\* the field-backed attributes of DownloadClientPneumatic, lines 39-49
PneumaticFieldKinds == [name \in {"nzbFolder", "strmFolder"} |-> "string"]

\* the attributes DownloadClientPneumatic.write sets from the response itself
PneumaticCommons ==
    {"Enable", "RemoveCompletedDownloads", "RemoveFailedDownloads", "Priority", "ID", "Name",
     "Tags"}

\* the field-backed attributes of NotificationKodi, lines 40-68
KodiFieldKinds ==
    [name \in {"host", "port", "username", "password", "displayTime", "useSSL", "notify",
               "updateLibrary", "cleanLibrary", "alwaysUpdate"} |->
        IF name \in {"host", "username", "password"} THEN "string"
        ELSE IF name \in {"port", "displayTime"} THEN "int64"
        ELSE "bool"]

\* the attributes of NotificationKodi every notification has
KodiCommons ==
    {"Tags", "Name", "ID", "OnGrab", "OnEpisodeFileDeleteForUpgrade", "OnEpisodeFileDelete",
     "IncludeHealthWarnings", "OnApplicationUpdate", "OnHealthIssue", "OnHealthRestored",
     "OnManualInteractionRequired", "OnSeriesAdd", "OnSeriesDelete", "OnRename", "OnUpgrade",
     "OnDownload", "OnImportComplete"}

\* the typed value a wire value is coerced to
Coerce(kind, v) ==
    CASE kind = "string" -> GoString(v.s)
      [] kind = "int64" -> GoInt64(v.n)
      [] kind = "bool" -> GoBool(v.b)

\* writeFields: every entry with a value and a declared name sets its
\* attribute; every other attribute is left as it is
RECURSIVE writeFields(_, _, _)
writeFields(fields, kinds, attrs) ==
    IF fields = <<>> THEN attrs
    ELSE LET f == Head(fields)
         IN writeFields(Tail(fields), kinds,
                        IF f.Value.kind # "nil" /\ f.Name \in DOMAIN kinds
                        THEN [attrs EXCEPT ![f.Name] = Known(Coerce(kinds[f.Name], f.Value))]
                        ELSE attrs)

\* the null of an attribute of the given kind
NullAttr(kind) ==
    Attr(FALSE, TRUE, CASE kind = "string" -> GoString("")
                        [] kind = "int64" -> GoInt64(0)
                        [] kind = "bool" -> GoBool(FALSE)
                        [] kind = "set" -> GoSet(<<>>))

\* DownloadClientPneumatic.write: genericDownloadClient is a new literal;
\* fromDownloadClient (lines 66-76) assigns every attribute of d
DownloadClientPneumaticWrite(d, downloadClient) ==
    LET genericDownloadClient ==
            [Commons |-> [c \in PneumaticCommons |-> Known(downloadClient.Commons[c])],
             Attrs |-> [name \in DOMAIN PneumaticFieldKinds |->
                           NullAttr(PneumaticFieldKinds[name])]]
        written == [genericDownloadClient EXCEPT
                       !.Attrs = writeFields(downloadClient.Fields, PneumaticFieldKinds, @)]
    IN [Commons |-> [c \in DOMAIN d.Commons |-> written.Commons[c]],
        Attrs |-> [name \in DOMAIN d.Attrs |-> written.Attrs[name]]]

\* Notification.write: the common attributes are set from the response, the
\* field-backed ones by writeFields
NotificationWrite(n, notification) ==
    [Commons |-> [c \in DOMAIN n.Commons |-> Known(notification.Commons[c])],
     Attrs |-> writeFields(notification.Fields, KodiFieldKinds, n.Attrs)]

\* NotificationKodi.write: genericNotification is n.toNotification(), lines
\* 72-104, a copy of the record being overwritten; fromNotification, lines
\* 106-134, assigns every attribute of n
NotificationKodiWrite(n, notification) ==
    LET genericNotification == [Commons |-> n.Commons, Attrs |-> n.Attrs]
        written == NotificationWrite(genericNotification, notification)
    IN [Commons |-> [c \in DOMAIN n.Commons |-> written.Commons[c]],
        Attrs |-> [name \in DOMAIN n.Attrs |-> written.Attrs[name]]]

\* the value a response carries for a common attribute
CommonValue(c) ==
    IF c = "ID" THEN GoInt64(1)
    ELSE IF c = "Priority" THEN GoInt64(25)
    ELSE IF c = "Name" THEN GoString("resourceTest")
    ELSE IF c = "Tags" THEN GoSet(<<>>)
    ELSE GoBool(FALSE)

\* responses of the server: the common attributes and a field list
TypedResponses(commons, fieldLists) ==
    {[Commons |-> [c \in commons |-> CommonValue(c)], Fields |-> l] : l \in fieldLists}

\* records a translation finds in place: the one decoded from an imported
\* state, all null but id, and the one of an earlier plan or state
TypedPriors(commons, kinds) ==
    {[Commons |-> [c \in commons |->
                      IF c = "ID" THEN Known(GoInt64(1)) ELSE Attr(FALSE, TRUE, CommonValue(c))],
      Attrs |-> [name \in DOMAIN kinds |-> NullAttr(kinds[name])]],
     [Commons |-> [c \in commons |-> Known(CommonValue(c))],
      Attrs |-> [name \in DOMAIN kinds |->
                    Known(Coerce(kinds[name], Val("", TRUE, 7, FALSE, "prior", <<>>)))]],
     [Commons |-> [c \in commons |-> Known(CommonValue(c))],
      Attrs |-> [name \in DOMAIN kinds |->
                    IF kinds[name] = "string" THEN Known(GoString("secret"))
                    ELSE NullAttr(kinds[name])]]}

\* a translation with the responses it may be given and the records it may
\* find in place
Translations ==
    {[of |-> "writeIndexer",
      responses |-> {IndexerOutput(1, "filelistResourceTest", <<>>, l) : l \in
                        {<<>>, <<Field("username", JString("user"))>>,
                         <<Field("username", JNil), Field("categories", JArray(<<>>))>>,
                         <<Field("extraServerField", JNumber(7, FALSE))>>}},
      priors |-> {ZeroIndexer, NullIndexer,
                  PlanIndexer(UnknownID, "filelistResourceTest",
                              [a \in {"username"} |-> GoString("Username")], FALSE)}],
     [of |-> "DownloadClientPneumatic.write",
      responses |-> TypedResponses(PneumaticCommons,
                        {<<>>, <<Field("nzbFolder", JString("/nzb"))>>,
                         <<Field("nzbFolder", JString("/nzb")), Field("strmFolder", JNil)>>,
                         <<Field("strmFolder", JString("/strm")),
                           Field("extraServerField", JNumber(7, FALSE))>>}),
      priors |-> TypedPriors(PneumaticCommons, PneumaticFieldKinds)],
     [of |-> "NotificationKodi.write",
      responses |-> TypedResponses(KodiCommons,
                        {<<>>, <<Field("host", JString("kodi.lan"))>>,
                         <<Field("host", JString("kodi.lan")), Field("port", JNumber(8080, FALSE)),
                           Field("password", JNil)>>,
                         <<Field("useSSL", JBool(TRUE)),
                           Field("extraServerField", JNumber(7, FALSE))>>}),
      priors |-> TypedPriors(KodiCommons, KodiFieldKinds)]}

\* the record the translation leaves for resp.State.Set
Translate(of, prior, response) ==
    CASE of = "writeIndexer" -> writeIndexer(response).output
      [] of = "DownloadClientPneumatic.write" -> DownloadClientPneumaticWrite(prior, response)
      [] of = "NotificationKodi.write" -> NotificationKodiWrite(prior, response)

\* one invocation of a translation, before it ran
Invocation(of, prior, response) ==
    [of |-> of, prior |-> prior, response |-> response, done |-> FALSE, result |-> prior]

\* two invocations of one translation on the same response
InitTranslate ==
    /\ conversion = NoConversion
    /\ lookup = NoLookup
    /\ InitMarshalIdle
    /\ InitLifecycle
    /\ InitProviderIdle
    /\ tables = Tables
    /\ \E t \in Translations :
           \E response \in t.responses, prior1 \in t.priors, prior2 \in t.priors :
               procs = <<Invocation(t.of, prior1, response), Invocation(t.of, prior2, response)>>

TranslateCall ==
    /\ \E i \in 1..Len(procs) :
           /\ ~procs[i].done
           /\ procs' = [procs EXCEPT ![i].done = TRUE,
                                     ![i].result = Translate(procs[i].of, procs[i].prior,
                                                             procs[i].response)]
    /\ UNCHANGED tables
    /\ UNCHANGED <<marshalVars, lifecycleVars, providerVars, lookup, conversion>>

SpecTranslate == InitTranslate /\ [][TranslateCall]_vars

\* C17: the state Create, Read and Update write is a function of the server
\* response alone: two invocations of a translation on the same response
\* leave the same record, whatever record each found in place.
C17_FunctionOfResponse ==
    (Len(procs) = 2 /\ procs[1].done /\ procs[2].done) => procs[1].result = procs[2].result

(***************************************************************************)
(* Concurrent marshaling, indexer_resource.go:402-512: two goroutines, each *)
(* inside writeIndexer or readIndexerFields on a record of its own (the    *)
(* acceptance tests run in parallel, indexer_filelist_resource_test.go:11). *)
(* One step is one statement: the declaration of the local, or one         *)
(* iteration of a loop.  The tables are the package-level variables.       *)
(***************************************************************************)
\* variant: output and fields are package-level variables, one frame for all
Locals_Shared(i) == 1

\* the frame holding the locals (output, fields) of invocation i: its own
Locals(i) == i

\* the names readIndexerFields visits, in the order of its five loops
ReadOrder(t) ==
    t.indexerBoolFields \o t.indexerIntFields \o t.indexerFloatFields
        \o t.indexerStringFields \o t.indexerIntSliceFields

\* the call of the loop a name is visited in
ReadFieldOf(t, name, indexer) ==
    IF Contains(t.indexerBoolFields, name) THEN ReadBoolField(name, indexer)
    ELSE IF Contains(t.indexerIntFields, name) THEN ReadIntField(name, indexer)
    ELSE IF Contains(t.indexerFloatFields, name) THEN ReadFloatField(name, indexer)
    ELSE IF Contains(t.indexerStringFields, name) THEN ReadStringField(name, indexer)
    ELSE ReadIntSliceField(name, indexer)

\* an invocation at its entry: the function, its argument, the statement it
\* is at, and its frame
Entered(of, arg) ==
    [of |-> of, arg |-> arg, i |-> 0, acc |-> [output |-> ZeroIndexer, fields |-> <<>>]]

\* the invocation has returned
Returned(p) ==
    p.i > (IF p.of = "writeIndexer" THEN Len(p.arg.Fields) ELSE Len(ReadOrder(Tables)))

\* what the goroutines are called with: server responses of well-typed
\* fields, and records decoded from plans
ConcurrentCalls ==
    {Entered("writeIndexer", IndexerOutput(1, "filelistResourceTest", <<>>, l)) : l \in
        {<<>>, <<Field("username", JString("user"))>>,
         <<Field("categories", JArray(<<21, 23>>)), Field("extraServerField", JNumber(7, FALSE)),
           Field("minimumSeeders", JNumber(1, FALSE))>>}}
        \cup {Entered("readIndexerFields",
                      PlanIndexer(UnknownID, "filelistResourceTest",
                                  [a \in {"username"} |-> GoString(username)], unsetNull))
                 : username \in {"user"}, unsetNull \in BOOLEAN}

InitConcurrent ==
    /\ conversion = NoConversion
    /\ lookup = NoLookup
    /\ InitMarshalIdle
    /\ InitLifecycle
    /\ InitProviderIdle
    /\ tables = Tables
    /\ procs \in [1..2 -> ConcurrentCalls]

\* goroutine i executes its next statement of writeIndexer
WriteStep(i) ==
    /\ procs[i].of = "writeIndexer"
    /\ ~Returned(procs[i])
    /\ LET p == procs[i]
           frame == procs[Locals(i)].acc
           written == IF p.i = 0
                      THEN writeIndexerLiteral(p.arg)
                      ELSE writeIndexerField(p.arg.Fields[p.i], frame.output).output
       IN procs' = [[procs EXCEPT ![Locals(i)].acc.output = written] EXCEPT ![i].i = p.i + 1]
    /\ UNCHANGED tables
    /\ UNCHANGED <<marshalVars, lifecycleVars, providerVars, lookup, conversion>>

\* goroutine i executes its next statement of readIndexerFields
ReadStep(i) ==
    /\ procs[i].of = "readIndexerFields"
    /\ ~Returned(procs[i])
    /\ LET p == procs[i]
           frame == procs[Locals(i)].acc
           fields == IF p.i = 0
                     THEN <<>>
                     ELSE frame.fields \o ReadFieldOf(tables, ReadOrder(tables)[p.i], p.arg)
       IN procs' = [[procs EXCEPT ![Locals(i)].acc.fields = fields] EXCEPT ![i].i = p.i + 1]
    /\ UNCHANGED tables
    /\ UNCHANGED <<marshalVars, lifecycleVars, providerVars, lookup, conversion>>

SpecConcurrent == InitConcurrent /\ [][\E i \in 1..2 : WriteStep(i) \/ ReadStep(i)]_vars

\* C19: under every interleaving of two marshaling invocations on distinct
\* records, each returns the result it returns when run alone, and the
\* shared partition tables are never written.
C19_ConcurrentSafe ==
    /\ tables = Tables
    /\ \A i \in 1..Len(procs) :
           (procs[i].of \in {"writeIndexer", "readIndexerFields"} /\ Returned(procs[i]))
               => IF procs[i].of = "writeIndexer"
                  THEN procs[Locals(i)].acc.output = writeIndexer(procs[i].arg).output
                  ELSE procs[Locals(i)].acc.fields = readIndexerFields(procs[i].arg)

C19_Witness ==
    /\ Len(procs) = 2
    /\ procs[1].of = "writeIndexer"
    /\ procs[2].of = "writeIndexer"
    /\ procs[1].arg # procs[2].arg
    /\ Len(procs[1].arg.Fields) = 3
    /\ Returned(procs[1])
    /\ Returned(procs[2])
    /\ procs[1].acc.output.Attrs["categories"] = Known(GoSet(<<21, 23>>))
    /\ procs[2].acc.output.Attrs["username"] = Known(GoString("user"))


(***************************************************************************)
(* The single-item data sources: IndexerDataSource.Read with findIndexer   *)
(* (notification_signal_resource.go:581-616) and                           *)
(* NotificationDataSource.Read with Notification.find                      *)
(* (notification_data_source.go:430-462).  A notification record is kept   *)
(* to its common attributes and the field-backed ones of KodiFieldKinds.   *)
(***************************************************************************)
\* variant: the loop keeps going and the last match wins
findIndexer_Last(name, indexers) ==
    LET named == {i \in 1..Len(indexers) : indexers[i].Name = name}
    IN IF named = {} THEN [err |-> TRUE, indexer |-> <<>>]
       ELSE [err |-> FALSE, indexer |-> indexers[CHOOSE i \in named : \A j \in named : j <= i]]

\* findIndexer: the loop returns at the first element whose Name is name
findIndexer(name, indexers) ==
    LET named == {i \in 1..Len(indexers) : indexers[i].Name = name}
    IN IF named = {} THEN [err |-> TRUE, indexer |-> <<>>]
       ELSE [err |-> FALSE, indexer |-> indexers[CHOOSE i \in named : \A j \in named : i <= j]]

\* IndexerDataSource.Read: every error returns before resp.State.Set
IndexerDataSourceRead(decode, fail, name, response) ==
    IF HasError(decode) THEN [Diagnostics |-> decode, State |-> NoLookup.State]
    ELSE IF fail
    THEN [Diagnostics |-> decode \o <<ErrorDiag(ClientError)>>, State |-> NoLookup.State]
    ELSE LET found == findIndexer(name, response)
         IN IF found.err
            THEN [Diagnostics |-> decode \o <<ErrorDiag("DataSourceError")>>,
                  State |-> NoLookup.State]
            ELSE [Diagnostics |-> decode,
                  State |-> [set |-> TRUE, value |-> writeIndexer(found.indexer).output]]

\* Notification.find: the loop writes n from the first element whose name
\* is name and returns; past the loop it adds the error and leaves n as it is
NotificationFind(n, name, notifications) ==
    LET named == {i \in 1..Len(notifications) : notifications[i].Name = name}
    IN IF named = {} THEN [n |-> n, diags |-> <<ErrorDiag("DataSourceError")>>]
       ELSE [n |-> NotificationWrite(n, notifications[CHOOSE i \in named :
                                                           \A j \in named : i <= j]),
             diags |-> <<>>]

\* NotificationDataSource.Read: after find, resp.State.Set(ctx, &data) is
\* reached whether find added an error or not
NotificationDataSourceRead(decode, fail, data, response) ==
    IF HasError(decode) THEN [Diagnostics |-> decode, State |-> NoLookup.State]
    ELSE IF fail
    THEN [Diagnostics |-> decode \o <<ErrorDiag(ClientError)>>, State |-> NoLookup.State]
    ELSE LET found == NotificationFind(data, data.Commons["Name"].Value.s, response)
         IN [Diagnostics |-> decode \o found.diags, State |-> [set |-> TRUE, value |-> found.n]]

\* the Notification req.Config.Get decodes: the name is configured, every
\* other attribute is computed and null
NotificationConfig(name) ==
    [Commons |-> [c \in KodiCommons |->
                     IF c = "Name" THEN Known(GoString(name))
                     ELSE Attr(FALSE, TRUE, CommonValue(c))],
     Attrs |-> [f \in DOMAIN KodiFieldKinds |-> NullAttr(KodiFieldKinds[f])]]

\* the names elements of the server list carry; names are compared as they are
ListedNames == {"tv", "TV", "films"}

\* the list the server returns for the given names: the element at position
\* i has id i and a field that tells it from the others
Listed(of, names) ==
    [i \in 1..Len(names) |->
        IF of = "IndexerDataSource"
        THEN IndexerOutput(i, names[i], <<>>, <<Field("seedTime", JNumber(i, FALSE))>>)
        ELSE [Name |-> names[i],
              Commons |-> [c \in KodiCommons |->
                              IF c = "ID" THEN GoInt64(i)
                              ELSE IF c = "Name" THEN GoString(names[i])
                              ELSE CommonValue(c)],
              Fields |-> <<Field("port", JNumber(i, FALSE))>>]]

InitLookup ==
    /\ conversion = NoConversion
    /\ InitMarshalIdle
    /\ InitLifecycle
    /\ InitProviderIdle
    /\ InitConcurrentIdle
    /\ \E of \in {"IndexerDataSource", "NotificationDataSource"}, name \in {"tv", "films"} :
           \E len \in 0..MaxListed :
               \E names \in [1..len -> ListedNames] :
                   lookup = [NoLookup EXCEPT !.of = of, !.name = name,
                                             !.list = Listed(of, names)]

\* Terraform reads the data source: the configuration decodes or not, the
\* API call fails or returns the list
DataSourceRead ==
    /\ ~lookup.done
    /\ \E decode \in DecodeDiags, fail \in BOOLEAN :
           LET resp == IF lookup.of = "IndexerDataSource"
                       THEN IndexerDataSourceRead(decode, fail, lookup.name, lookup.list)
                       ELSE NotificationDataSourceRead(decode, fail,
                                                       NotificationConfig(lookup.name),
                                                       lookup.list)
           IN lookup' = [lookup EXCEPT !.done = TRUE, !.decode = decode, !.fail = fail,
                                       !.Diagnostics = resp.Diagnostics,
                                       !.State = resp.State]
    /\ UNCHANGED <<marshalVars, lifecycleVars, providerVars, concurrentVars, conversion>>

SpecLookup == InitLookup /\ [][DataSourceRead]_vars

(***************************************************************************)
(* Properties of the data sources.                                         *)
(***************************************************************************)
\* Read got the list from the server
Listing == lookup.done /\ ~HasError(lookup.decode) /\ ~lookup.fail

\* the positions of the server list whose element has the configured name
Named == {i \in 1..Len(lookup.list) : lookup.list[i].Name = lookup.name}

\* C26: lookup by name takes the first element, in server list order, whose
\* name equals the configured name exactly; later elements of the same name
\* are ignored and the state is written from that element only.
C26_FirstByName ==
    (Listing /\ Named # {})
        => LET first == CHOOSE i \in Named : \A j \in Named : i <= j
               element == lookup.list[first]
           IN /\ ~HasError(lookup.Diagnostics)
              /\ lookup.State.set
              /\ IF lookup.of = "IndexerDataSource"
                 THEN /\ lookup.State.value.ID = Known(GoInt64(first))
                      /\ lookup.State.value = writeIndexer(element).output
                 ELSE /\ lookup.State.value.Commons["ID"] = Known(GoInt64(first))
                      /\ lookup.State.value.Attrs["port"] = Known(GoInt64(first))
                      /\ lookup.State.value
                             = NotificationWrite(NotificationConfig(lookup.name), element)

C26_Witness ==
    /\ Listing
    /\ lookup.of = "IndexerDataSource"
    /\ lookup.name = "tv"
    /\ Len(lookup.list) = 3
    /\ lookup.list[1].Name = "TV"
    /\ lookup.list[2].Name = "tv"
    /\ lookup.list[3].Name = "tv"
    /\ lookup.State.set
    /\ lookup.State.value.ID = Known(GoInt64(2))
    /\ lookup.State.value.Attrs["seedTime"] = Known(GoInt64(2))

\* C27: when no element of the server list has the configured name, Read
\* reports an error and writes no state.
C27_NotFoundWritesNothing ==
    (Listing /\ Named = {})
        => /\ HasError(lookup.Diagnostics)
           /\ ~lookup.State.set


(***************************************************************************)
(* The specific models and the generic ones: NotificationKodi,             *)
(* NotificationSignal and NotificationPlex convert to and from the generic *)
(* Notification, whose read builds the request; DownloadClientPneumatic    *)
(* builds its request itself.  A model is a function from attribute names  *)
(* to attribute values.  The tables list, in source order, what            *)
(* toNotification sets (generic attribute, attribute of n) and what        *)
(* fromNotification assigns (attribute of n, generic attribute).           *)
(***************************************************************************)
\* notification_kodi_resource.go:19-134
NotificationKodi ==
    [fields |->
         [Tags |-> "set", Host |-> "string", Name |-> "string", Username |-> "string",
          Password |-> "string", DisplayTime |-> "int64", Port |-> "int64", ID |-> "int64",
          OnGrab |-> "bool", UseSSL |-> "bool", Notify |-> "bool",
          UpdateLibrary |-> "bool", CleanLibrary |-> "bool", AlwaysUpdate |-> "bool",
          OnEpisodeFileDeleteForUpgrade |-> "bool", OnEpisodeFileDelete |-> "bool",
          IncludeHealthWarnings |-> "bool", OnApplicationUpdate |-> "bool",
          OnHealthIssue |-> "bool", OnHealthRestored |-> "bool",
          OnManualInteractionRequired |-> "bool", OnSeriesAdd |-> "bool",
          OnSeriesDelete |-> "bool", OnRename |-> "bool", OnUpgrade |-> "bool",
          OnDownload |-> "bool", OnImportComplete |-> "bool"],
     toNotification |->
        <<<<"Tags", "Tags">>, <<"Port", "Port">>, <<"Host", "Host">>,
          <<"DisplayTime", "DisplayTime">>, <<"Password", "Password">>,
          <<"Username", "Username">>, <<"Name", "Name">>, <<"ID", "ID">>,
          <<"UseSSL", "UseSSL">>, <<"Notify", "Notify">>,
          <<"UpdateLibrary", "UpdateLibrary">>, <<"AlwaysUpdate", "AlwaysUpdate">>,
          <<"CleanLibrary", "CleanLibrary">>, <<"OnGrab", "OnGrab">>,
          <<"OnEpisodeFileDeleteForUpgrade", "OnEpisodeFileDeleteForUpgrade">>,
          <<"OnEpisodeFileDelete", "OnEpisodeFileDelete">>,
          <<"IncludeHealthWarnings", "IncludeHealthWarnings">>,
          <<"OnApplicationUpdate", "OnApplicationUpdate">>,
          <<"OnHealthIssue", "OnHealthIssue">>, <<"OnHealthRestored", "OnHealthRestored">>,
          <<"OnManualInteractionRequired", "OnManualInteractionRequired">>,
          <<"OnSeriesAdd", "OnSeriesAdd">>, <<"OnSeriesDelete", "OnSeriesDelete">>,
          <<"OnRename", "OnRename">>, <<"OnUpgrade", "OnUpgrade">>,
          <<"OnDownload", "OnDownload">>, <<"OnImportComplete", "OnImportComplete">>>>,
     constants |-> [ConfigContract |-> "XbmcSettings", Implementation |-> "Xbmc"],
     fromNotification |->
        <<<<"Tags", "Tags">>, <<"Port", "Port">>, <<"DisplayTime", "DisplayTime">>,
          <<"Host", "Host">>, <<"Password", "Password">>, <<"Username", "Username">>,
          <<"Name", "Name">>, <<"ID", "ID">>, <<"UseSSL", "UseSSL">>,
          <<"Notify", "Notify">>, <<"UpdateLibrary", "UpdateLibrary">>,
          <<"AlwaysUpdate", "AlwaysUpdate">>, <<"CleanLibrary", "CleanLibrary">>,
          <<"OnGrab", "OnGrab">>,
          <<"OnEpisodeFileDeleteForUpgrade", "OnEpisodeFileDeleteForUpgrade">>,
          <<"OnEpisodeFileDelete", "OnEpisodeFileDelete">>,
          <<"IncludeHealthWarnings", "IncludeHealthWarnings">>,
          <<"OnApplicationUpdate", "OnApplicationUpdate">>,
          <<"OnHealthIssue", "OnHealthIssue">>, <<"OnHealthRestored", "OnHealthRestored">>,
          <<"OnManualInteractionRequired", "OnManualInteractionRequired">>,
          <<"OnSeriesAdd", "OnSeriesAdd">>, <<"OnSeriesDelete", "OnSeriesDelete">>,
          <<"OnRename", "OnRename">>, <<"OnUpgrade", "OnUpgrade">>,
          <<"OnDownload", "OnDownload">>, <<"OnImportComplete", "OnImportComplete">>>>]

\* notification_signal_resource.go:19-122
NotificationSignal ==
    [fields |->
         [Tags |-> "set", AuthPassword |-> "string", AuthUsername |-> "string",
          Host |-> "string", SenderNumber |-> "string", ReceiverID |-> "string",
          Name |-> "string", Port |-> "int64", ID |-> "int64", UseSSL |-> "bool",
          OnGrab |-> "bool", OnEpisodeFileDeleteForUpgrade |-> "bool",
          OnEpisodeFileDelete |-> "bool", IncludeHealthWarnings |-> "bool",
          OnApplicationUpdate |-> "bool", OnHealthIssue |-> "bool",
          OnHealthRestored |-> "bool", OnManualInteractionRequired |-> "bool",
          OnSeriesAdd |-> "bool", OnSeriesDelete |-> "bool", OnUpgrade |-> "bool",
          OnDownload |-> "bool", OnImportComplete |-> "bool"],
     toNotification |->
        <<<<"Tags", "Tags">>, <<"AuthPassword", "AuthPassword">>, <<"Name", "Name">>,
          <<"AuthUsername", "AuthUsername">>, <<"Host", "Host">>,
          <<"SenderNumber", "SenderNumber">>, <<"ReceiverID", "ReceiverID">>,
          <<"Port", "Port">>, <<"UseSSL", "UseSSL">>, <<"ID", "ID">>,
          <<"OnGrab", "OnGrab">>,
          <<"OnEpisodeFileDeleteForUpgrade", "OnEpisodeFileDeleteForUpgrade">>,
          <<"OnEpisodeFileDelete", "OnEpisodeFileDelete">>,
          <<"IncludeHealthWarnings", "IncludeHealthWarnings">>,
          <<"OnApplicationUpdate", "OnApplicationUpdate">>,
          <<"OnHealthIssue", "OnHealthIssue">>, <<"OnHealthRestored", "OnHealthRestored">>,
          <<"OnManualInteractionRequired", "OnManualInteractionRequired">>,
          <<"OnSeriesAdd", "OnSeriesAdd">>, <<"OnSeriesDelete", "OnSeriesDelete">>,
          <<"OnUpgrade", "OnUpgrade">>, <<"OnDownload", "OnDownload">>,
          <<"OnImportComplete", "OnImportComplete">>>>,
     constants |-> [ConfigContract |-> "SignalSettings", Implementation |-> "Signal"],
     fromNotification |->
        <<<<"Tags", "Tags">>, <<"AuthPassword", "AuthPassword">>,
          <<"AuthUsername", "AuthUsername">>, <<"Host", "Host">>,
          <<"SenderNumber", "SenderNumber">>, <<"ReceiverID", "ReceiverID">>,
          <<"Port", "Port">>, <<"UseSSL", "UseSSL">>, <<"Name", "Name">>, <<"ID", "ID">>,
          <<"OnGrab", "OnGrab">>,
          <<"OnEpisodeFileDeleteForUpgrade", "OnEpisodeFileDeleteForUpgrade">>,
          <<"OnEpisodeFileDelete", "OnEpisodeFileDelete">>,
          <<"IncludeHealthWarnings", "IncludeHealthWarnings">>,
          <<"OnApplicationUpdate", "OnApplicationUpdate">>,
          <<"OnHealthIssue", "OnHealthIssue">>, <<"OnHealthRestored", "OnHealthRestored">>,
          <<"OnManualInteractionRequired", "OnManualInteractionRequired">>,
          <<"OnSeriesAdd", "OnSeriesAdd">>, <<"OnSeriesDelete", "OnSeriesDelete">>,
          <<"OnUpgrade", "OnUpgrade">>, <<"OnDownload", "OnDownload">>,
          <<"OnImportComplete", "OnImportComplete">>>>]

\* the NotificationPlex listing, docs/resources/indexer_config.md:150-235
NotificationPlex ==
    [fields |->
         [Tags |-> "set", Host |-> "string", AuthToken |-> "string", Name |-> "string",
          ID |-> "int64", Port |-> "int64", UpdateLibrary |-> "bool", UseSSL |-> "bool",
          OnEpisodeFileDeleteForUpgrade |-> "bool", OnEpisodeFileDelete |-> "bool",
          IncludeHealthWarnings |-> "bool", OnSeriesAdd |-> "bool",
          OnSeriesDelete |-> "bool", OnRename |-> "bool", OnUpgrade |-> "bool",
          OnDownload |-> "bool", OnImportComplete |-> "bool"],
     toNotification |->
        <<<<"Tags", "Tags">>, <<"Host", "Host">>, <<"Name", "Name">>,
          <<"AuthToken", "AuthToken">>, <<"ID", "ID">>, <<"Port", "Port">>,
          <<"UpdateLibrary", "UpdateLibrary">>, <<"UseSSL", "UseSSL">>,
          <<"OnEpisodeFileDeleteForUpgrade", "OnEpisodeFileDeleteForUpgrade">>,
          <<"OnEpisodeFileDelete", "OnEpisodeFileDelete">>,
          <<"IncludeHealthWarnings", "IncludeHealthWarnings">>,
          <<"OnSeriesAdd", "OnSeriesAdd">>, <<"OnSeriesDelete", "OnSeriesDelete">>,
          <<"OnRename", "OnRename">>, <<"OnUpgrade", "OnUpgrade">>,
          <<"OnDownload", "OnDownload">>, <<"OnImportComplete", "OnImportComplete">>>>,
     constants |-> [ConfigContract |-> "PlexServerSettings", Implementation |-> "PlexServer"],
     fromNotification |->
        <<<<"Tags", "Tags">>, <<"Host", "Host">>, <<"Name", "Name">>,
          <<"AuthToken", "AuthToken">>, <<"ID", "ID">>,
          <<"UpdateLibrary", "UpdateLibrary">>, <<"Port", "Port">>, <<"UseSSL", "UseSSL">>,
          <<"OnEpisodeFileDeleteForUpgrade", "OnEpisodeFileDeleteForUpgrade">>,
          <<"OnEpisodeFileDelete", "OnEpisodeFileDelete">>,
          <<"IncludeHealthWarnings", "IncludeHealthWarnings">>,
          <<"OnSeriesAdd", "OnSeriesAdd">>, <<"OnSeriesDelete", "OnSeriesDelete">>,
          <<"OnRename", "OnRename">>, <<"OnUpgrade", "OnUpgrade">>,
          <<"OnDownload", "OnDownload">>, <<"OnImportComplete", "OnImportComplete">>>>]

\* download_client_pneumatic_resource.go:18-49
DownloadClientPneumatic ==
    [fields |->
         [Tags |-> "set", Name |-> "string", NzbFolder |-> "string",
          StrmFolder |-> "string", Priority |-> "int64", ID |-> "int64", Enable |-> "bool",
          RemoveFailedDownloads |-> "bool", RemoveCompletedDownloads |-> "bool"],
     constants |-> [ConfigContract |-> "PneumaticSettings", Implementation |-> "Pneumatic",
                    Protocol |-> "usenet"]]

\* the attributes of the generic Notification the three models use
NotificationAttrs ==
    UNION {DOMAIN m.fields \cup DOMAIN m.constants :
               m \in {NotificationKodi, NotificationSignal, NotificationPlex}}

\* variant: the literal lacks ConfigContract and Implementation
toNotification_NoConstants(model, n) ==
    [a \in NotificationAttrs |->
        LET set == {i \in 1..Len(model.toNotification) : model.toNotification[i][1] = a}
        IN IF set # {} THEN n[model.toNotification[CHOOSE i \in set : TRUE][2]]
           ELSE NullString]

\* toNotification: a Notification literal with the listed attributes taken
\* from n and the two constants; every other attribute is the zero value, null
toNotification(model, n) ==
    [a \in NotificationAttrs |->
        LET set == {i \in 1..Len(model.toNotification) : model.toNotification[i][1] = a}
        IN IF set # {} THEN n[model.toNotification[CHOOSE i \in set : TRUE][2]]
           ELSE IF a \in DOMAIN model.constants THEN Known(GoString(model.constants[a]))
           ELSE NullString]

\* variant: the assignment of Port is missing
fromNotification_WithoutPort(model, n, notification) ==
    [a \in DOMAIN n |->
        LET assigned == {i \in 1..Len(model.fromNotification) :
                             model.fromNotification[i][1] = a /\ a # "Port"}
        IN IF assigned = {} THEN n[a]
           ELSE notification[model.fromNotification[
                                 CHOOSE i \in assigned : \A j \in assigned : j <= i][2]]]

\* fromNotification: the listed assignments in order; an attribute of n
\* that none of them names keeps its value
fromNotification(model, n, notification) ==
    [a \in DOMAIN n |->
        LET assigned == {i \in 1..Len(model.fromNotification) :
                             model.fromNotification[i][1] = a}
        IN IF assigned = {} THEN n[a]
           ELSE notification[model.fromNotification[
                                 CHOOSE i \in assigned : \A j \in assigned : j <= i][2]]]

\* Notification.read: the request carries the name, the id and the two
\* identifiers of the generic record; ValueString of a null is ""
NotificationRead(notification) ==
    [Name |-> notification["Name"].Value.s, Id |-> notification["ID"].Value.n,
     Implementation |-> notification["Implementation"].Value.s,
     ConfigContract |-> notification["ConfigContract"].Value.s]

\* DownloadClientPneumatic.read, lines 292-310
DownloadClientPneumaticRead(d) ==
    [Enable |-> d["Enable"].Value.b,
     RemoveCompletedDownloads |-> d["RemoveCompletedDownloads"].Value.b,
     RemoveFailedDownloads |-> d["RemoveFailedDownloads"].Value.b,
     Priority |-> d["Priority"].Value.n, ID |-> d["ID"].Value.n,
     ConfigContract |-> DownloadClientPneumatic.constants.ConfigContract,
     Implementation |-> DownloadClientPneumatic.constants.Implementation,
     Name |-> d["Name"].Value.s, Protocol |-> DownloadClientPneumatic.constants.Protocol,
     Tags |-> d["Tags"].Value.l,
     Fields |-> LET generic == [Attrs |-> [nzbFolder |-> d["NzbFolder"],
                                          strmFolder |-> d["StrmFolder"]]]
                IN ReadStringField("nzbFolder", generic) \o ReadStringField("strmFolder", generic)]

\* the models by the name of their type
Models ==
    [NotificationKodi |-> NotificationKodi, NotificationSignal |-> NotificationSignal,
     NotificationPlex |-> NotificationPlex, DownloadClientPneumatic |-> DownloadClientPneumatic]

\* a value of the given kind other than its zero value
Sample(kind) ==
    CASE kind = "string" -> GoString("Xbmc")
      [] kind = "int64" -> GoInt64(7)
      [] kind = "bool" -> GoBool(TRUE)
      [] kind = "set" -> GoSet(<<1, 2>>)

\* the records Plan.Get and State.Get decode for a model: every attribute
\* known, or all null but one attribute that is known or unknown
Decodable(fields) ==
    {[a \in DOMAIN fields |-> Known(Sample(fields[a]))]}
        \cup {[a \in DOMAIN fields |-> IF a = marked THEN v ELSE NullAttr(fields[a])]
                 : <<marked, v>> \in
                       UNION {{<<a, Known(Sample(fields[a]))>>,
                               <<a, Attr(TRUE, FALSE, NullAttr(fields[a]).Value)>>}
                                  : a \in DOMAIN fields}}

InitConvert ==
    /\ InitMarshalIdle
    /\ InitLifecycle
    /\ InitProviderIdle
    /\ InitConcurrentIdle
    /\ lookup = NoLookup
    /\ \E of \in DOMAIN Models :
           \E n \in Decodable(Models[of].fields) :
               conversion = [NoConversion EXCEPT !.of = of, !.n = n]

\* Create and Update build their request with read
ReadCall ==
    /\ ~conversion.requested
    /\ conversion' =
           [conversion EXCEPT
               !.requested = TRUE,
               !.request = IF conversion.of = "DownloadClientPneumatic"
                           THEN DownloadClientPneumaticRead(conversion.n)
                           ELSE NotificationRead(toNotification(Models[conversion.of],
                                                                conversion.n))]
    /\ UNCHANGED <<marshalVars, lifecycleVars, providerVars, concurrentVars, lookup>>

\* a notification model is converted to the generic Notification and back
\* into a new value of the model, all attributes null
RoundTrip ==
    /\ ~conversion.converted
    /\ conversion.of # "DownloadClientPneumatic"
    /\ LET model == Models[conversion.of]
           receiver == [a \in DOMAIN model.fields |-> NullAttr(model.fields[a])]
       IN conversion' =
              [conversion EXCEPT
                  !.converted = TRUE,
                  !.back = fromNotification(model, receiver,
                                            toNotification(model, conversion.n))]
    /\ UNCHANGED <<marshalVars, lifecycleVars, providerVars, concurrentVars, lookup>>

SpecConvert == InitConvert /\ [][ReadCall \/ RoundTrip]_vars

(***************************************************************************)
(* Properties of the conversions.                                          *)
(***************************************************************************)
\* C28: every request a specific resource builds for Create or Update
\* carries the fixed implementation and config contract of its kind (and the
\* protocol, for Pneumatic), whatever the plan holds.
C28_FixedImplementation ==
    conversion.requested
        => /\ conversion.request.Implementation
                  = CASE conversion.of = "NotificationKodi" -> "Xbmc"
                      [] conversion.of = "NotificationSignal" -> "Signal"
                      [] conversion.of = "NotificationPlex" -> "PlexServer"
                      [] conversion.of = "DownloadClientPneumatic" -> "Pneumatic"
           /\ conversion.request.ConfigContract
                  = CASE conversion.of = "NotificationKodi" -> "XbmcSettings"
                      [] conversion.of = "NotificationSignal" -> "SignalSettings"
                      [] conversion.of = "NotificationPlex" -> "PlexServerSettings"
                      [] conversion.of = "DownloadClientPneumatic" -> "PneumaticSettings"
           /\ conversion.of = "DownloadClientPneumatic" => conversion.request.Protocol = "usenet"

C28_Witness ==
    /\ conversion.requested
    /\ conversion.of = "NotificationSignal"
    /\ conversion.n["Name"] = Known(GoString("Xbmc"))
    /\ conversion.n["Host"] = Known(GoString("Xbmc"))
    /\ conversion.request.Name = "Xbmc"
    /\ conversion.request.Implementation = "Signal"
    /\ conversion.request.ConfigContract = "SignalSettings"

\* C29: the conversion loses nothing: fromNotification(toNotification(n))
\* equals n on every attribute of the model, and fromNotification assigns
\* every attribute of the model.
C29_ConversionLosesNothing ==
    conversion.converted
        => LET model == Models[conversion.of]
           IN /\ DOMAIN conversion.back = DOMAIN model.fields
              /\ \A a \in DOMAIN model.fields : conversion.back[a] = conversion.n[a]
              /\ \A a \in DOMAIN model.fields :
                     \E i \in 1..Len(model.fromNotification) : model.fromNotification[i][1] = a

C29_Witness ==
    /\ conversion.converted
    /\ conversion.of = "NotificationPlex"
    /\ conversion.n["Port"] = Known(GoInt64(7))
    /\ conversion.n["AuthToken"].Null
    /\ conversion.back = conversion.n

====
